---- MODULE Spec2Model ----
(***************************************************************************)
(* A model of the data-retrieval / cache / fallback pipeline and of the    *)
(* ranking algorithms of api/services/stock_service.py, and of the script  *)
(* fetch_top_investors.py that writes the local files.                     *)
(*                                                                         *)
(* Strings of digits (ticker codes) are sequences of digits, so that       *)
(* str() and zfill() are computed, not assumed.  A table (a DataFrame      *)
(* indexed by ticker) is a sequence of rows [ticker, name, amt] in row     *)
(* order.  Dates are day numbers; date - 1 is the previous calendar day.   *)
(***************************************************************************)
EXTENDS Integers, Sequences, FiniteSets, TLC

Min(a, b) == IF a <= b THEN a ELSE b
Max(a, b) == IF a >= b THEN a ELSE b

(***************************************************************************)
(* Text conversions                                                        *)
(***************************************************************************)
TickerWidth == 6

RECURSIVE Str(_)
\* str(n) of a natural number: its decimal digits
Str(n) == IF n < 10 THEN <<n>> ELSE Append(Str(n \div 10), n % 10)

RECURSIVE ZFill(_, _)
\* s.zfill(w): pad with zeros on the left up to width w, never cut
ZFill(s, w) == IF Len(s) >= w THEN s ELSE ZFill(<<0>> \o s, w)

\* the ticker string of security number n, as the remote source gives it
TK(n) == ZFill(Str(n), TickerWidth)

(***************************************************************************)
(* Tables                                                                  *)
(***************************************************************************)
Row(t, n, a) == [ticker |-> t, name |-> n, amt |-> a]

RowsOf(tbl) == {tbl[i] : i \in DOMAIN tbl}
TickersOf(tbl) == {tbl[i].ticker : i \in DOMAIN tbl}

\* the orderings of a finite set of rows as sequences without repetition
Orderings(S) ==
    {s \in [1..Cardinality(S) -> S] : \A i, j \in 1..Cardinality(S) : i # j => s[i] # s[j]}

\* a head that keeps one row too many
DfHeadPlusOne(tbl, n) == SubSeq(tbl, 1, Min(n + 1, Len(tbl)))
\* df.head(n)
DfHead(tbl, n) ==
    IF n >= 0 THEN SubSeq(tbl, 1, Min(n, Len(tbl)))
    ELSE SubSeq(tbl, 1, Max(0, Len(tbl) + n))

\* position at which row r enters the sorted sequence s: after every row that
\* may stay before it (list.sort is stable, also with reverse=True)
RECURSIVE InsertPos(_, _, _, _)
InsertPos(s, r, desc, i) ==
    IF i > Len(s) THEN i
    ELSE IF (desc /\ s[i].amt >= r.amt) \/ (~desc /\ s[i].amt <= r.amt)
         THEN InsertPos(s, r, desc, i + 1)
         ELSE i

InsertRow(s, r, desc) ==
    LET p == InsertPos(s, r, desc, 1)
    IN  SubSeq(s, 1, p - 1) \o <<r>> \o SubSeq(s, p, Len(s))

RECURSIVE ListSortByAmt(_, _)
\* res.sort(key=lambda x: x['net_buy_amount'], reverse=desc) of a Python list:
\* entries of equal amount keep their order
ListSortByAmt(tbl, desc) ==
    IF tbl = <<>> THEN <<>>
    ELSE InsertRow(ListSortByAmt(SubSeq(tbl, 1, Len(tbl) - 1), desc), tbl[Len(tbl)], desc)

\* a sort that leaves the rows as they are
SortByAmtNone(tbl, desc) == {tbl}
\* df.sort_values(by='순매수거래대금', ascending = ~desc) with the default kind
\* (quicksort, not stable): the tables it may give, rows of equal amount in any
\* order
SortByAmt(tbl, desc) ==
    LET Rearrangements ==
            {[i \in DOMAIN tbl |-> tbl[p[i]]] :
                p \in {q \in [DOMAIN tbl -> DOMAIN tbl] :
                            \A i, j \in DOMAIN tbl : i # j => q[i] # q[j]}}
        InAmtOrder(s) ==
            \A i \in 1..(Len(s) - 1) :
                IF desc THEN s[i].amt >= s[i + 1].amt ELSE s[i].amt <= s[i + 1].amt
    IN  {s \in Rearrangements : InAmtOrder(s)}

(***************************************************************************)
(* Price tables: ticker -> [close, chg]; chg is the percent change in      *)
(* hundredths of a percent (round(x, 2) keeps hundredths).                 *)
(***************************************************************************)
NoPrice == [t \in {} |-> 0]

\* get_price_info(ticker) of get_top_net_buy_sell / get_aggregated_top_stocks
get_price_info(price_df, ticker) ==
    IF DOMAIN price_df # {} /\ ticker \in DOMAIN price_df
    THEN [close |-> price_df[ticker].close, chg |-> price_df[ticker].chg]
    ELSE [close |-> 0, chg |-> 0]

\* the loop that turns the selected rows into ranked entries
RankedEntries(rows, price_df) ==
    [i \in 1..Len(rows) |->
        [ticker         |-> rows[i].ticker,
         name           |-> rows[i].name,
         net_buy_amount |-> rows[i].amt,
         close_price    |-> get_price_info(price_df, rows[i].ticker).close,
         percent_change |-> get_price_info(price_df, rows[i].ticker).chg,
         rank           |-> i]]

\* buy_df = df.sort_values(ascending=False).head(top_n) and its loop
BuyList(df, top_n, price_df) ==
    {RankedEntries(DfHead(s, top_n), price_df) : s \in SortByAmt(df, TRUE)}

\* sell_df = df.sort_values(ascending=True).head(top_n) and its loop
SellList(df, top_n, price_df) ==
    {RankedEntries(DfHead(s, top_n), price_df) : s \in SortByAmt(df, FALSE)}

(***************************************************************************)
(* Investor labels.  The source's labels are Korean strings; they are      *)
(* written here in romanised form:                                         *)
(*   "oegugin" = '외국인', "gaein" = '개인', "gigwanhapgye" = '기관합계',      *)
(*   "gita" = a label that is none of the three.                           *)
(***************************************************************************)
investors == <<"oegugin", "gaein", "gigwanhapgye">>
Investors == {investors[i] : i \in DOMAIN investors}
OtherLabel == "gita"

investor_code_map ==
    [l \in Investors |->
        CASE l = "oegugin" -> "foreigner"
          [] l = "gaein" -> "individual"
          [] OTHER -> "institution"]

(***************************************************************************)
(* Local fallback files (tier 3)                                           *)
(***************************************************************************)
Absent == [kind |-> "absent"]
Unreadable == [kind |-> "unreadable"]
\* a CSV as pd.read_csv parses it: the ticker column holds numbers
Csv(has_ticker, rows) == [kind |-> "csv", has_ticker |-> has_ticker, rows |-> rows]

FileAt(fs, name) == IF name \in DOMAIN fs THEN fs[name] ELSE Absent

\* one "if os.path.exists(f): try: read_csv ... if '티커' in columns: ..." block:
\* the rows this file adds to combined_df
ReadSide(content) ==
    IF content.kind = "csv" /\ content.has_ticker
    THEN [i \in 1..Len(content.rows) |->
            Row(ZFill(Str(content.rows[i].ticker), TickerWidth),
                content.rows[i].name, content.rows[i].amt)]
    ELSE <<>>

\* index.duplicated(keep='last'): the last row of a ticker survives
DedupLast(tbl) ==
    LET keep == {i \in DOMAIN tbl : \A j \in (i + 1)..Len(tbl) : tbl[j].ticker # tbl[i].ticker}
        RECURSIVE Pick(_)
        Pick(i) == IF i > Len(tbl) THEN <<>>
                   ELSE (IF i \in keep THEN <<tbl[i]>> ELSE <<>>) \o Pick(i + 1)
    IN  Pick(1)
\* combined_df[~combined_df.index.duplicated(keep='first')]
DedupFirst(tbl) ==
    LET keep == {i \in DOMAIN tbl : \A j \in 1..(i - 1) : tbl[j].ticker # tbl[i].ticker}
        RECURSIVE Pick(_)
        Pick(i) == IF i > Len(tbl) THEN <<>>
                   ELSE (IF i \in keep THEN <<tbl[i]>> ELSE <<>>) \o Pick(i + 1)
    IN  Pick(1)

\* tier 3 of get_investor_data
LocalFallback(fs, date, investor_type) ==
    IF investor_type \notin DOMAIN investor_code_map THEN <<>>
    ELSE LET inv_code == investor_code_map[investor_type]
             buy  == ReadSide(FileAt(fs, <<inv_code, "buy", date>>))
             sell == ReadSide(FileAt(fs, <<inv_code, "sell", date>>))
         IN  DedupFirst(buy \o sell)

(***************************************************************************)
(* The cache store: a set of StockData records; the composite primary key  *)
(* is (date, investor, ticker).                                            *)
(***************************************************************************)
StockData(date, investor, ticker, name, net_buy_amount) ==
    [date |-> date, investor |-> investor, ticker |-> ticker,
     name |-> name, net_buy_amount |-> net_buy_amount]

SameKey(r, s) == r.date = s.date /\ r.investor = s.investor /\ r.ticker = s.ticker

\* db.query(StockData).filter(date == d, investor == i).all(), as rows
CachedRows(store, date, investor_type) ==
    {Row(r.ticker, r.name, r.net_buy_amount) :
        r \in {x \in store : x.date = date /\ x.investor = investor_type}}

\* a test that never finds the cached records
cached_data_falsy(rows) == FALSE
\* "if cached_data:"
cached_data_truthy(rows) == rows # {}

\* the new_records built from the remote table (ticker = str(ticker),
\* net_buy_amount = int(amount))
new_records(df, date, investor_type) ==
    {StockData(date, investor_type, df[i].ticker, df[i].name, df[i].amt) : i \in DOMAIN df}

\* a store without the primary key, and one that replaces on conflict
bulk_save_unchecked(store, recs) == [ok |-> TRUE, store |-> store \cup recs]
bulk_save_upsert(store, recs) ==
    [ok |-> TRUE,
     store |-> {x \in store : \A r \in recs : ~SameKey(x, r)} \cup recs]
\* a store that keeps the rows inserted before the conflicting one
bulk_save_partial(store, recs) ==
    [ok |-> ~(\E r \in recs, x \in store : SameKey(r, x)),
     store |-> store \cup {r \in recs : \A x \in store : ~SameKey(r, x)}]
\* db.bulk_save_objects(new_records); db.commit(): one transaction of INSERTs,
\* refused as a whole when a primary key is already present
bulk_save_objects(store, recs) ==
    IF \E r \in recs, x \in store : SameKey(r, x)
    THEN [ok |-> FALSE, store |-> store]
    ELSE [ok |-> TRUE, store |-> store \cup recs]

(***************************************************************************)
(* Bounds and the data the environment may hold                            *)
(***************************************************************************)
Callers == {1, 2}
\* the day number of "now"
Today == 20
\* top-level operations started in one behaviour
MaxCalls == 2
\* store, provider and price-query failures in one behaviour
MaxFaults == 1
\* changes of the provider's data in one behaviour
MaxRemoteChanges == 1

MAX_DAYS_BACK == 10
DefaultTopN == 100

\* the days for which the provider may have data, and the days requests name
DataDates == {Today - 1, Today}
ReqDates == {Today - 1, Today}
\* get_investor_data is called with any label; the HTTP layer and the job pass
\* only the three known labels to the other operations
ReqInvestors == {"oegugin", OtherLabel}
OpInvestors == {"oegugin"}
TopNs == {1}
TrendDays == {1, 2}
\* the caller whose operations are followed, beside a concurrent caller of
\* get_investor_data
Requesters == {1}

\* what the provider may hold for one day: nothing (a non-trading day), or one
\* of two versions of the day's table (the second a revision of the first)
TableIds == 0..2
Family(id) ==
    CASE id = 1 -> <<Row(TK(1), "a", 500), Row(TK(2), "b", -100)>>
      [] id = 2 -> <<Row(TK(1), "a2", 300)>>
      [] OTHER -> <<>>

\* each investor class sees its own amounts
InvFactor(investor_type) ==
    CASE investor_type = "oegugin" -> 1
      [] investor_type = "gaein" -> -1
      [] OTHER -> 2

\* stock.get_market_net_purchases_of_equities_by_ticker(date, date, "ALL", investor)
RemoteNet(rem, date, investor_type) ==
    IF date \in DOMAIN rem /\ investor_type \in Investors
    THEN LET t == Family(rem[date])
         IN  [i \in 1..Len(t) |->
                Row(t[i].ticker, t[i].name, t[i].amt * InvFactor(investor_type))]
    ELSE <<>>

PriceFamily(id) ==
    CASE id = 1 -> (TK(1) :> [close |-> 70, chg |-> 150])
      [] id = 2 -> (TK(1) :> [close |-> 71, chg |-> -25] @@ TK(2) :> [close |-> 9, chg |-> 0])
      [] OTHER -> NoPrice

\* stock.get_market_ohlcv(date, market="ALL")[['종가', '등락률']]
RemotePrice(rem, date) ==
    IF date \in DOMAIN rem THEN PriceFamily(rem[date]) ELSE NoPrice

\* get_market_price(date): the close and change columns, empty when the
\* provider has nothing or the query raises
get_market_price(rem, date, raises) ==
    IF raises THEN NoPrice ELSE RemotePrice(rem, date)

\* the provider's data at the start
RemoteInits ==
    { (Today - 1 :> 0 @@ Today :> 0),
      (Today - 1 :> 1 @@ Today :> 0),
      (Today - 1 :> 1 @@ Today :> 2) }

\* the local files a deployment may hold (written by fetch_top_investors.py)
FileConfigs ==
    { <<>>,
      (<<"foreigner", "buy", Today - 1>> :>
            Csv(TRUE, <<[ticker |-> 1, name |-> "a", amt |-> 500],
                        [ticker |-> 2, name |-> "b", amt |-> 300]>>)
       @@ <<"foreigner", "sell", Today - 1>> :>
            Csv(TRUE, <<[ticker |-> 3, name |-> "c", amt |-> -100],
                        [ticker |-> 1, name |-> "a", amt |-> -5]>>)),
      (<<"foreigner", "buy", Today - 1>> :> Unreadable
       @@ <<"foreigner", "sell", Today - 1>> :>
            Csv(TRUE, <<[ticker |-> 3, name |-> "c", amt |-> -100]>>)),
      (<<"foreigner", "buy", Today - 1>> :>
            Csv(FALSE, <<[ticker |-> 1, name |-> "a", amt |-> 500]>>)) }

(***************************************************************************)
(* State                                                                   *)
(***************************************************************************)
VARIABLES
    cache,      \* the stock_data table
    remote,     \* the provider's data: day -> TableIds
    files,      \* the local CSV files: <<code, side, date>> -> content
    call,       \* per caller: the operation in progress and its locals
    last,       \* per caller: the record of its last finished get_investor_data
    prev,       \* per caller: the record of the one before
    calls,      \* operations started
    faults,     \* failures injected
    changes,    \* provider changes made
    rk,         \* the input and output of a ranking computation (SpecRank)
    pool,       \* analyze_special_trends with its worker pool (SpecTrend)
    rs,         \* the input and output of the trading-day resolver (SpecDates)
    np,         \* get_nearest_market_price and its loop (SpecPrice)
    fw          \* fetch_top_investors.py: the run of main() that writes the files

vars == <<cache, remote, files, call, last, prev, calls, faults, changes, rk, pool, rs, np, fw>>

NoRes == [kind |-> "none"]
NullRes == [kind |-> "null"]

NoFetch ==
    [valid |-> FALSE, date |-> 0, inv |-> "", q |-> "none", seen |-> {},
     rq |-> "none", rtab |-> <<>>, ins |-> "none", fr |-> FALSE, fseen |-> <<>>,
     outcome |-> "none", out |-> <<>>, keyrows |-> {}]

IdleCall ==
    [op |-> "none", pc |-> "idle", date |-> 0, inv |-> "", top_n |-> 0,
     left |-> 0, jobi |-> 0, start |-> 0, days |-> 0, df |-> <<>>,
     req |-> 0, allow |-> FALSE, tried |-> <<>>,
     q |-> "none", seen |-> {}, rq |-> "none", rtab |-> <<>>, ins |-> "none",
     fr |-> FALSE, fseen |-> <<>>, pend |-> {}, raw |-> <<>>, kept |-> <<>>,
     ptarget |-> 0, ptries |-> 0, price |-> NoPrice,
     outcome |-> "none", res |-> NoRes]

NoRank == [kind |-> "none"]
NoPool ==
    [phase |-> "idle", days |-> 0, inv |-> "", top_n |-> 0, dates |-> <<>>,
     fut |-> <<>>, raw |-> <<>>, kept |-> <<>>,
     ptarget |-> 0, ptries |-> 0, price |-> NoPrice, start_price |-> NoPrice,
     outcome |-> "none", res |-> NoRes]
NoResolve == [kind |-> "none"]
NoLookup == [phase |-> "none"]
NoWriter ==
    [pc |-> "idle", date |-> 0, i |-> 0, k |-> 0, df |-> <<>>, side |-> "", wrote |-> FALSE]

Init ==
    /\ cache = {}
    /\ remote \in RemoteInits
    /\ files \in FileConfigs
    /\ call = [c \in Callers |-> IdleCall]
    /\ last = [c \in Callers |-> NoFetch]
    /\ prev = [c \in Callers |-> NoFetch]
    /\ calls = 0
    /\ faults = 0
    /\ changes = 0
    /\ rk = NoRank
    /\ pool = NoPool
    /\ rs = NoResolve
    /\ np = NoLookup
    /\ fw = NoWriter

(***************************************************************************)
(* get_investor_data, step by step                                         *)
(***************************************************************************)
\* entry of get_investor_data(date, investor_type)
StartFetch(cl, date) ==
    [cl EXCEPT !.pc = "query", !.date = date, !.df = <<>>, !.q = "none",
               !.seen = {}, !.rq = "none", !.rtab = <<>>, !.ins = "none",
               !.fr = FALSE, !.fseen = <<>>]

\* what a finished get_investor_data call did and gave
FetchRecord(cl, outcome, out, store) ==
    [valid |-> TRUE, date |-> cl.date, inv |-> cl.inv, q |-> cl.q, seen |-> cl.seen,
     rq |-> cl.rq, rtab |-> cl.rtab, ins |-> cl.ins, fr |-> cl.fr,
     fseen |-> cl.fseen,
     outcome |-> outcome, out |-> out,
     keyrows |-> CachedRows(store, cl.date, cl.inv)]

\* the end of an operation: update_daily_data goes on with its next investor
\* (it drops the result, and catches the exception, of get_top_net_buy_sell)
OpEnds(cl, outcome, res) ==
    IF cl.op = "job"
    THEN IF cl.jobi < Len(investors)
         THEN StartFetch([cl EXCEPT !.jobi = cl.jobi + 1,
                                    !.inv = investors[cl.jobi + 1],
                                    !.left = MAX_DAYS_BACK,
                                    !.tried = <<>>],
                         Today - 1)
         ELSE [cl EXCEPT !.pc = "done", !.outcome = "returned", !.res = NoRes]
    ELSE [cl EXCEPT !.pc = "done", !.outcome = outcome, !.res = res]

\* the fetches get_top_net_buy_sell has made so far, with the one just returned
Tried(cl, out) == Append(cl.tried, [date |-> cl.date, rows |-> Len(out)])

\* a loop of get_top_net_buy_sell that makes one fetch too few
AfterFetchOneShort(cl, outcome, out) ==
    IF cl.op = "fetch"
    THEN OpEnds(cl, outcome,
                IF outcome = "returned" THEN [kind |-> "table", table |-> out] ELSE NoRes)
    ELSE IF outcome = "raised" THEN OpEnds(cl, "raised", NoRes)
    ELSE IF out # <<>>
         THEN [cl EXCEPT !.pc = "price", !.df = out, !.tried = Tried(cl, out)]
    ELSE IF cl.left > 1
         THEN StartFetch([cl EXCEPT !.left = cl.left - 1, !.tried = Tried(cl, out)],
                         cl.date - 1)
    ELSE OpEnds([cl EXCEPT !.tried = Tried(cl, out)], "returned", NullRes)

\* where the caller of get_investor_data goes on with its result: a direct
\* caller has it; get_top_net_buy_sell ranks a non-empty table, and steps one
\* day back on an empty one while the loop has iterations left
AfterFetch(cl, outcome, out) ==
    IF cl.op = "fetch"
    THEN OpEnds(cl, outcome,
                IF outcome = "returned" THEN [kind |-> "table", table |-> out] ELSE NoRes)
    ELSE IF outcome = "raised" THEN OpEnds(cl, "raised", NoRes)
    ELSE IF out # <<>>
         THEN [cl EXCEPT !.pc = "price", !.df = out, !.tried = Tried(cl, out)]
    ELSE IF cl.left > 0
         THEN StartFetch([cl EXCEPT !.left = cl.left - 1, !.tried = Tried(cl, out)],
                         cl.date - 1)
    ELSE OpEnds([cl EXCEPT !.tried = Tried(cl, out)], "returned", NullRes)

FetchEnds(c, cl, outcome, out, store) ==
    /\ last' = [last EXCEPT ![c] = FetchRecord(cl, outcome, out, store)]
    /\ prev' = [prev EXCEPT ![c] = last[c]]
    /\ call' = [call EXCEPT ![c] = AfterFetch(cl, outcome, out)]

\* SessionLocal() or the query raises: nothing catches it (the outer try has
\* only a finally), so get_investor_data raises
CacheQueryFails(c) ==
    /\ call[c].pc = "query"
    /\ faults < MaxFaults
    /\ faults' = faults + 1
    /\ FetchEnds(c, [call[c] EXCEPT !.q = "raised",
                                    !.seen = CachedRows(cache, call[c].date, call[c].inv)],
                 "raised", <<>>, cache)
    /\ UNCHANGED <<cache, remote, files, calls, changes, rk, pool, rs, np, fw>>

\* tier 1: the cached records, in the order the store gives them
CacheQuery(c) ==
    /\ call[c].pc = "query"
    /\ LET rows == CachedRows(cache, call[c].date, call[c].inv)
       IN  IF cached_data_truthy(rows)
           THEN \E t \in Orderings(rows) :
                    FetchEnds(c, [call[c] EXCEPT !.q = "hit", !.seen = rows],
                              "returned", t, cache)
           ELSE /\ call' = [call EXCEPT ![c].pc = "remote", ![c].q = "miss",
                                        ![c].seen = rows]
                /\ UNCHANGED <<last, prev>>
    /\ UNCHANGED <<cache, remote, files, calls, faults, changes, rk, pool, rs, np, fw>>

\* a remote failure that nothing catches
RemoteQueryFailsPropagates(c) ==
    /\ call[c].pc = "remote"
    /\ faults < MaxFaults
    /\ faults' = faults + 1
    /\ FetchEnds(c, [call[c] EXCEPT !.rq = "raised"], "raised", <<>>, cache)
    /\ UNCHANGED <<cache, remote, files, calls, changes, rk, pool, rs, np, fw>>

\* tier 2: the remote call raises; the except clause swallows it
RemoteQueryFails(c) ==
    /\ call[c].pc = "remote"
    /\ faults < MaxFaults
    /\ faults' = faults + 1
    /\ call' = [call EXCEPT ![c].pc = "fallback", ![c].rq = "raised"]
    /\ UNCHANGED <<cache, remote, files, last, prev, calls, changes, rk, pool, rs, np, fw>>

\* tier 2: the remote table
RemoteQuery(c) ==
    /\ call[c].pc = "remote"
    /\ LET df == RemoteNet(remote, call[c].date, call[c].inv)
       IN  IF df # <<>>
           THEN call' = [call EXCEPT ![c].pc = "insert", ![c].df = df,
                                     ![c].rq = "table", ![c].rtab = df]
           ELSE call' = [call EXCEPT ![c].pc = "fallback", ![c].rq = "empty"]
    /\ UNCHANGED <<cache, remote, files, last, prev, calls, faults, changes, rk, pool, rs, np, fw>>

\* bulk_save_objects or commit raises for a reason of the store's own; the
\* transaction is rolled back by db.close()
BulkInsertFails(c) ==
    /\ call[c].pc = "insert"
    /\ faults < MaxFaults
    /\ faults' = faults + 1
    /\ call' = [call EXCEPT ![c].pc = "fallback", ![c].ins = "failed"]
    /\ UNCHANGED <<cache, remote, files, last, prev, calls, changes, rk, pool, rs, np, fw>>

\* bulk_save_objects and commit: on success "return df"; an IntegrityError is
\* caught by the same except clause as a remote failure, and the store is left
\* as the refused transaction leaves it
BulkInsert(c) ==
    /\ call[c].pc = "insert"
    /\ LET r == bulk_save_objects(cache, new_records(call[c].df, call[c].date, call[c].inv))
       IN  IF r.ok
           THEN /\ cache' = r.store
                /\ FetchEnds(c, [call[c] EXCEPT !.ins = "ok"], "returned",
                             call[c].df, r.store)
           ELSE /\ cache' = r.store
                /\ call' = [call EXCEPT ![c].pc = "fallback", ![c].ins = "failed"]
                /\ UNCHANGED <<last, prev>>
    /\ UNCHANGED <<remote, files, calls, faults, changes, rk, pool, rs, np, fw>>

\* tier 3 begins: the label's file code, "if not inv_code: return
\* pd.DataFrame()", and the block that reads the buy file.  fseen keeps what
\* each file held when it was read
Fallback(c) ==
    /\ call[c].pc = "fallback"
    /\ IF call[c].inv \notin DOMAIN investor_code_map
       THEN FetchEnds(c, [call[c] EXCEPT !.fr = TRUE], "returned",
                      LocalFallback(<<>>, call[c].date, call[c].inv), cache)
       ELSE LET buy_file == <<investor_code_map[call[c].inv], "buy", call[c].date>>
            IN  /\ call' = [call EXCEPT ![c].pc = "fallback_sell", ![c].fr = TRUE,
                                        ![c].fseen = (buy_file :> FileAt(files, buy_file))]
                /\ UNCHANGED <<last, prev>>
    /\ UNCHANGED <<cache, remote, files, calls, faults, changes, rk, pool, rs, np, fw>>

\* what the call has read of the files, with the sell file as it is now
FilesSeen(c) ==
    LET sell_file == <<investor_code_map[call[c].inv], "sell", call[c].date>>
    IN  call[c].fseen @@ (sell_file :> FileAt(files, sell_file))

\* a fallback that also saves the rows it read from the files
FallbackSellStores(c) ==
    /\ call[c].pc = "fallback_sell"
    /\ cache' = cache \cup new_records(LocalFallback(FilesSeen(c), call[c].date, call[c].inv),
                                       call[c].date, call[c].inv)
    /\ FetchEnds(c, [call[c] EXCEPT !.fseen = FilesSeen(c)], "returned",
                 LocalFallback(FilesSeen(c), call[c].date, call[c].inv), cache')
    /\ UNCHANGED <<remote, files, calls, faults, changes, rk, pool, rs, np, fw>>
\* the block that reads the sell file, the removal of duplicated tickers, and
\* the return
FallbackSell(c) ==
    /\ call[c].pc = "fallback_sell"
    /\ FetchEnds(c, [call[c] EXCEPT !.fseen = FilesSeen(c)], "returned",
                 LocalFallback(FilesSeen(c), call[c].date, call[c].inv), cache)
    /\ UNCHANGED <<cache, remote, files, calls, faults, changes, rk, pool, rs, np, fw>>

(***************************************************************************)
(* get_top_net_buy_sell and update_daily_data                              *)
(***************************************************************************)
\* the dictionaries get_top_net_buy_sell may return for a non-empty table
TopResult(df, top_n, price_df, date) ==
    {[kind |-> "top", buy |-> b, sell |-> s, date |-> date] :
        b \in BuyList(df, top_n, price_df), s \in SellList(df, top_n, price_df)}

\* get_market_price(current_date_str) raises inside: it returns an empty table
MarketPriceFails(c) ==
    /\ call[c].pc = "price"
    /\ faults < MaxFaults
    /\ faults' = faults + 1
    /\ \E r \in TopResult(call[c].df, call[c].top_n, NoPrice, call[c].date) :
          call' = [call EXCEPT ![c] = OpEnds(call[c], "returned", r)]
    /\ UNCHANGED <<cache, remote, files, last, prev, calls, changes, rk, pool, rs, np, fw>>

\* get_market_price(current_date_str), then the two rankings
MarketPrice(c) ==
    /\ call[c].pc = "price"
    /\ \E r \in TopResult(call[c].df, call[c].top_n,
                            RemotePrice(remote, call[c].date), call[c].date) :
          call' = [call EXCEPT ![c] = OpEnds(call[c], "returned", r)]
    /\ UNCHANGED <<cache, remote, files, last, prev, calls, faults, changes, rk, pool, rs, np, fw>>

CanCall(c) == call[c].pc \in {"idle", "done"} /\ calls < MaxCalls
CanRequest(c) == CanCall(c) /\ c \in Requesters

\* a direct call of get_investor_data(date, investor_type)
CallFetch(c) ==
    /\ CanCall(c)
    /\ \E d \in ReqDates, i \in ReqInvestors :
          call' = [call EXCEPT ![c] = StartFetch([IdleCall EXCEPT !.op = "fetch", !.inv = i], d)]
    /\ calls' = calls + 1
    /\ UNCHANGED <<cache, remote, files, last, prev, faults, changes, rk, pool, rs, np, fw>>

\* get_top_net_buy_sell(date, investor_type, top_n, allow_fallback)
CallTop(c) ==
    /\ CanRequest(c)
    /\ \E d \in ReqDates, i \in OpInvestors, n \in TopNs, allow_fallback \in BOOLEAN :
          call' = [call EXCEPT ![c] =
                StartFetch([IdleCall EXCEPT !.op = "top", !.inv = i, !.top_n = n,
                               !.req = d, !.allow = allow_fallback,
                               !.left = IF allow_fallback THEN MAX_DAYS_BACK ELSE 0], d)]
    /\ calls' = calls + 1
    /\ UNCHANGED <<cache, remote, files, last, prev, faults, changes, rk, pool, rs, np, fw>>

\* update_daily_data(): get_top_net_buy_sell(yesterday, investor) for each of
\* the three investors in turn
CallJob(c) ==
    /\ CanRequest(c)
    /\ call' = [call EXCEPT ![c] =
            StartFetch([IdleCall EXCEPT !.op = "job", !.jobi = 1, !.inv = investors[1],
                           !.top_n = DefaultTopN, !.req = Today - 1, !.allow = TRUE,
                           !.left = MAX_DAYS_BACK], Today - 1)]
    /\ calls' = calls + 1
    /\ UNCHANGED <<cache, remote, files, last, prev, faults, changes, rk, pool, rs, np, fw>>

(***************************************************************************)
(* get_nearest_market_price and get_aggregated_top_stocks                  *)
(***************************************************************************)
LookbackAttempts == 7

\* a loop that runs once more than range(7)
LookbackOneMore(n) == n <= LookbackAttempts
\* "for _ in range(7)": after n iterations another one is left
LookbackLeft(n) == n < LookbackAttempts

\* get_nearest_market_price(date_str) begins: target = the date asked for
LookupStart(cl, date) == [cl EXCEPT !.ptarget = date, !.ptries = 0]

\* one iteration of its loop, df the answer of get_market_price(target): the
\* lookup ends with df when df has rows and with the empty table when no
\* iteration is left, else target -= timedelta(days=1)
LookupStep(cl, df) ==
    IF DOMAIN df # {} THEN [done |-> TRUE, df |-> df, cl |-> cl]
    ELSE IF ~LookbackLeft(cl.ptries + 1) THEN [done |-> TRUE, df |-> NoPrice, cl |-> cl]
    ELSE [done |-> FALSE, df |-> NoPrice,
          cl |-> [cl EXCEPT !.ptarget = @ - 1, !.ptries = @ + 1]]

RECURSIVE NearestFrom(_, _, _, _)
\* the loop of get_nearest_market_price with n attempts left; failed: the dates
\* whose get_market_price raises inside and gives an empty table
NearestFrom(rem, date, n, failed) ==
    IF n = 0 THEN NoPrice
    ELSE LET df == IF date \in failed THEN NoPrice ELSE RemotePrice(rem, date)
         IN  IF DOMAIN df # {} THEN df ELSE NearestFrom(rem, date - 1, n - 1, failed)

get_nearest_market_price(rem, date, failed) ==
    NearestFrom(rem, date, LookbackAttempts, failed)

RECURSIVE ConcatDays(_, _, _, _)
ConcatDays(rem, investor_type, date, start) ==
    IF date < start THEN <<>>
    ELSE RemoteNet(rem, date, investor_type) \o ConcatDays(rem, investor_type, date - 1, start)

RECURSIVE SumAmt(_, _)
SumAmt(tbl, ticker) ==
    IF tbl = <<>> THEN 0
    ELSE (IF tbl[1].ticker = ticker THEN tbl[1].amt ELSE 0) + SumAmt(Tail(tbl), ticker)

\* stock.get_market_net_purchases_of_equities_by_ticker(start, end, "ALL", investor):
\* the provider's sum per ticker over the range
RemoteRange(rem, start, end, investor_type) ==
    LET all == ConcatDays(rem, investor_type, end, start)
        first == DedupFirst(all)
    IN  [i \in 1..Len(first) |->
            Row(first[i].ticker, first[i].name, SumAmt(all, first[i].ticker))]

\* get_aggregated_top_stocks(start_date, end_date, investor_type, top_n)
CallAgg(c) ==
    /\ CanRequest(c)
    /\ \E a \in ReqDates, b \in ReqDates, i \in OpInvestors, n \in TopNs :
          /\ a <= b
          /\ call' = [call EXCEPT ![c] =
                [IdleCall EXCEPT !.op = "agg", !.pc = "agg", !.start = a, !.date = b,
                                 !.inv = i, !.top_n = n]]
    /\ calls' = calls + 1
    /\ UNCHANGED <<cache, remote, files, last, prev, faults, changes, rk, pool, rs, np, fw>>

\* get_aggregated_investor_data raises inside: an empty table, so None
AggQueryFails(c) ==
    /\ call[c].pc = "agg"
    /\ faults < MaxFaults
    /\ faults' = faults + 1
    /\ call' = [call EXCEPT ![c] = OpEnds(call[c], "returned", NullRes)]
    /\ UNCHANGED <<cache, remote, files, last, prev, calls, changes, rk, pool, rs, np, fw>>

\* a range query that stores what it fetched
AggQueryStores(c) ==
    /\ call[c].pc = "agg"
    /\ LET df == RemoteRange(remote, call[c].start, call[c].date, call[c].inv)
       IN  /\ cache' = cache \cup new_records(df, call[c].date, call[c].inv)
           /\ IF df = <<>>
              THEN call' = [call EXCEPT ![c] = OpEnds(call[c], "returned", NullRes)]
              ELSE call' = [call EXCEPT ![c] =
                        LookupStart([call[c] EXCEPT !.pc = "aggprice", !.df = df],
                                    call[c].date)]
    /\ UNCHANGED <<remote, files, last, prev, calls, faults, changes, rk, pool, rs, np, fw>>

\* df = get_aggregated_investor_data(start_date, end_date, investor_type): the
\* provider's range table, asked of the provider directly
AggQuery(c) ==
    /\ call[c].pc = "agg"
    /\ LET df == RemoteRange(remote, call[c].start, call[c].date, call[c].inv)
       IN  IF df = <<>>
           THEN call' = [call EXCEPT ![c] = OpEnds(call[c], "returned", NullRes)]
           ELSE call' = [call EXCEPT ![c] =
                        LookupStart([call[c] EXCEPT !.pc = "aggprice", !.df = df],
                                    call[c].date)]
    /\ UNCHANGED <<cache, remote, files, last, prev, calls, faults, changes, rk, pool, rs, np, fw>>

\* one price query of price_df = get_nearest_market_price(end_date); the lookup
\* over, the two rankings.  raises: the query raises inside get_market_price,
\* which returns an empty table
AggPrice(c, raises) ==
    /\ call[c].pc = "aggprice"
    /\ IF raises THEN faults < MaxFaults /\ faults' = faults + 1 ELSE UNCHANGED faults
    /\ LET l == LookupStep(call[c], get_market_price(remote, call[c].ptarget, raises))
       IN  IF l.done
           THEN \E b \in BuyList(call[c].df, call[c].top_n, l.df),
                   s \in SellList(call[c].df, call[c].top_n, l.df) :
                   call' = [call EXCEPT ![c] =
                               OpEnds(LookupStart(call[c], 0), "returned",
                                      [kind |-> "agg", buy |-> b, sell |-> s,
                                       start_date |-> call[c].start,
                                       end_date |-> call[c].date])]
           ELSE call' = [call EXCEPT ![c] = l.cl]
    /\ UNCHANGED <<cache, remote, files, last, prev, calls, changes, rk, pool, rs, np, fw>>

(***************************************************************************)
(* analyze_special_trends                                                  *)
(***************************************************************************)
TrendTopN == 20

search_limit(days) == days * 2 + 5

\* dates_to_check: search_limit consecutive days ending today, newest first
dates_to_check(days) == [k \in 1..Max(0, search_limit(days)) |-> Today - (k - 1)]

\* get_daily_raw_data(date, investor_type): the remote table, empty when the
\* query raises
get_daily_raw_data(rem, date, investor_type, failed) ==
    [date |-> date,
     df |-> IF date \in failed THEN <<>> ELSE RemoteNet(rem, date, investor_type)]

\* raw_results left in the order of arrival
SortByArrival(raw) == raw

RECURSIVE SortByDate(_)
\* raw_results.sort(key=lambda x: x[0], reverse=True): newest first, equal
\* dates in their order of arrival
SortByDate(raw) ==
    IF raw = <<>> THEN <<>>
    ELSE LET m == CHOOSE i \in DOMAIN raw :
                    /\ \A j \in DOMAIN raw : raw[j].date <= raw[i].date
                    /\ \A j \in 1..(i - 1) : raw[j].date < raw[i].date
         IN  <<raw[m]>> \o SortByDate(SubSeq(raw, 1, m - 1) \o SubSeq(raw, m + 1, Len(raw)))

\* "if len(raw_results) > days: raw_results = raw_results[:days]"
kept_results(raw, days) == IF Len(raw) > days THEN DfHead(raw, days) ELSE raw

\* set(df[df['순매수거래대금'] > 0].index)
day_buyers(df) == {df[i].ticker : i \in {j \in DOMAIN df : df[j].amt > 0}}

\* an intersection that stops after the day before the most recent
consecutive_buyers_two_days(kept) ==
    {t \in day_buyers(kept[1].df) :
        \A k \in 2..Min(2, Len(kept)) : t \in day_buyers(kept[k].df)}

\* today's buyers intersected with the buyers of every other kept day
consecutive_buyers(kept) ==
    {t \in day_buyers(kept[1].df) : \A k \in 2..Len(kept) : t \in day_buyers(kept[k].df)}

\* a difference that removes every ticker listed on an earlier day, bought or sold
new_inflow_unlisted(kept) ==
    {t \in day_buyers(kept[1].df) : \A k \in 2..Len(kept) : t \notin TickersOf(kept[k].df)}

\* a set that keeps today's buyers whatever the earlier days hold
new_inflow_unsubtracted(kept) == day_buyers(kept[1].df)

\* today's buyers less the buyers of every other kept day
new_inflow(kept) ==
    {t \in day_buyers(kept[1].df) : \A k \in 2..Len(kept) : t \notin day_buyers(kept[k].df)}

\* round(a / b) for b > 0 of a value the float holds exactly: the nearest
\* integer, a half going to the even neighbour
RoundDiv(a, b) ==
    LET fl == a \div b
        r  == a - fl * b
    IN  IF 2 * r < b THEN fl
        ELSE IF 2 * r > b THEN fl + 1
        ELSE IF fl % 2 = 0 THEN fl ELSE fl + 1

\* round((end_price - start_price) / start_price * 100, 2) in hundredths, for
\* start_price > 0.  The quotient is a float: when it is a binary fraction the
\* product is exact and a half goes to the even neighbour; when it is not, a
\* product that falls on a half in exact arithmetic lands on either side of it
period_change(start_price, end_price) ==
    LET RECURSIVE Gcd(_, _)
        Gcd(m, n) == IF n = 0 THEN m ELSE Gcd(n, m % n)
        RECURSIVE IsPowerOfTwo(_)
        IsPowerOfTwo(n) == n = 1 \/ (n > 1 /\ n % 2 = 0 /\ IsPowerOfTwo(n \div 2))
        diff == IF end_price >= start_price THEN end_price - start_price
                ELSE start_price - end_price
        a  == (end_price - start_price) * 10000
        fl == a \div start_price
        exact == IsPowerOfTwo(start_price \div Gcd(start_price, diff))
    IN  IF 2 * (a - fl * start_price) = start_price /\ ~exact
        THEN {fl, fl + 1}
        ELSE {RoundDiv(a, start_price)}

\* the entries build_result_list may make of one row of today_df (rank still 0)
TrendEntry(row, price_df, start_price_df) ==
    LET end_price == get_price_info(price_df, row.ticker).close
        end_chg == get_price_info(price_df, row.ticker).chg
        start_price == get_price_info(start_price_df, row.ticker).close
    IN  {[ticker         |-> row.ticker,
          name           |-> row.name,
          net_buy_amount |-> row.amt,
          close_price    |-> end_price,
          percent_change |-> chg,
          rank           |-> 0] :
            chg \in IF start_price > 0 /\ end_price > 0
                    THEN period_change(start_price, end_price)
                    ELSE {end_chg}}

\* res.sort(key=net_buy_amount, reverse=True); rank = i + 1; res[:top_n],
\* for the rows in the order the loop over the set visited them
RankAfterSort(rows, price_df, start_price_df, top_n) ==
    LET sorted == ListSortByAmt(rows, TRUE)
        entries == UNION {TrendEntry(sorted[i], price_df, start_price_df) :
                            i \in DOMAIN sorted}
    IN  {DfHead([i \in DOMAIN sorted |-> [e[i] EXCEPT !.rank = i]], top_n) :
            e \in {f \in [DOMAIN sorted -> entries] :
                      \A i \in DOMAIN sorted :
                          f[i] \in TrendEntry(sorted[i], price_df, start_price_df)}}

\* build_result_list(tickers): the loop runs over a set, in any order
build_result_list(tickers, today_df, price_df, start_price_df, top_n) ==
    UNION {RankAfterSort(ord, price_df, start_price_df, top_n) :
             ord \in Orderings({r \in RowsOf(today_df) : r.ticker \in tickers})}

\* the pairs (build_result_list(consecutive_buyers), build_result_list(new_inflow))
\* of one call: with one kept day both sets are set(index) of the same rows,
\* left untouched by the loops over raw_results[1:], so the two loops visit them
\* in the same order
trend_lists(kept, today_df, price_df, start_price_df, top_n) ==
    {p \in build_result_list(consecutive_buyers(kept), today_df,
                             price_df, start_price_df, top_n)
            \X build_result_list(new_inflow(kept), today_df,
                                 price_df, start_price_df, top_n) :
        Len(kept) = 1 => p[1] = p[2]}

\* the dictionaries analyze_special_trends may return for the kept days
TrendResults(kept, price_df, start_price_df, top_n) ==
    {[kind |-> "trend",
      consecutive |-> p[1],
      new_inflow |-> p[2],
      days_analyzed |-> Len(kept),
      start_date |-> kept[Len(kept)].date,
      end_date |-> kept[1].date] :
        p \in trend_lists(kept, kept[1].df, price_df, start_price_df, top_n)}

\* analyze_special_trends(days, investor_type): the candidate dates, one query
\* each
CallTrend(c) ==
    /\ CanRequest(c)
    /\ \E n \in TrendDays, i \in OpInvestors :
          call' = [call EXCEPT ![c] =
                [IdleCall EXCEPT !.op = "trend", !.pc = "trend", !.days = n, !.inv = i,
                                 !.top_n = TrendTopN,
                                 !.pend = {dates_to_check(n)[k] :
                                              k \in DOMAIN dates_to_check(n)}]]
    /\ calls' = calls + 1
    /\ UNCHANGED <<cache, remote, files, last, prev, faults, changes, rk, pool, rs, np, fw>>

\* the query of one candidate date ends, in any order among them, and the
\* parent appends its table, when not empty, to raw_results.  raises: the
\* query raises and the bare except of get_daily_raw_data gives an empty table
TrendFetch(c, raises) ==
    /\ call[c].pc = "trend"
    /\ IF raises THEN faults < MaxFaults /\ faults' = faults + 1 ELSE UNCHANGED faults
    /\ \E d \in call[c].pend :
           LET r == get_daily_raw_data(remote, d, call[c].inv, IF raises THEN {d} ELSE {})
           IN  call' = [call EXCEPT ![c].pend = @ \ {d},
                                    ![c].raw = IF r.df # <<>> THEN Append(@, r) ELSE @]
    /\ UNCHANGED <<cache, remote, files, last, prev, calls, changes, rk, pool, rs, np, fw>>

\* every query has ended and none had data: "if not raw_results: return None"
TrendNoData(c) ==
    /\ call[c].pc = "trend"
    /\ call[c].pend = {}
    /\ call[c].raw = <<>>
    /\ call' = [call EXCEPT ![c] = OpEnds(call[c], "returned", NullRes)]
    /\ UNCHANGED <<cache, remote, files, last, prev, calls, faults, changes, rk, pool, rs, np, fw>>

\* every query has ended: the sort by date, the truncation to `days`, and
\* "today_date, today_df = raw_results[0]", which raises IndexError when the
\* truncation left no day; then the price lookup of the most recent day begins
Trend(c) ==
    /\ call[c].pc = "trend"
    /\ call[c].pend = {}
    /\ call[c].raw # <<>>
    /\ LET kept == kept_results(SortByDate(call[c].raw), call[c].days)
       IN  IF kept = <<>>
           THEN call' = [call EXCEPT ![c] = OpEnds(call[c], "raised", NoRes)]
           ELSE call' = [call EXCEPT ![c] =
                            LookupStart([call[c] EXCEPT !.pc = "trendprice",
                                                        !.kept = kept],
                                        kept[1].date)]
    /\ UNCHANGED <<cache, remote, files, last, prev, calls, faults, changes, rk, pool, rs, np, fw>>

\* one price query of price_df = get_nearest_market_price(today_date); the
\* lookup over, that of the oldest kept day begins
TrendPrice(c, raises) ==
    /\ call[c].pc = "trendprice"
    /\ IF raises THEN faults < MaxFaults /\ faults' = faults + 1 ELSE UNCHANGED faults
    /\ LET l == LookupStep(call[c], get_market_price(remote, call[c].ptarget, raises))
       IN  IF l.done
           THEN call' = [call EXCEPT ![c] =
                           LookupStart([call[c] EXCEPT !.pc = "trendstart", !.price = l.df],
                                       call[c].kept[Len(call[c].kept)].date)]
           ELSE call' = [call EXCEPT ![c] = l.cl]
    /\ UNCHANGED <<cache, remote, files, last, prev, calls, changes, rk, pool, rs, np, fw>>

\* one price query of start_price_df = get_nearest_market_price(oldest_date);
\* the lookup over, the two sets and their lists
TrendStartPrice(c, raises) ==
    /\ call[c].pc = "trendstart"
    /\ IF raises THEN faults < MaxFaults /\ faults' = faults + 1 ELSE UNCHANGED faults
    /\ LET l == LookupStep(call[c], get_market_price(remote, call[c].ptarget, raises))
       IN  IF l.done
           THEN \E r \in TrendResults(call[c].kept, call[c].price, l.df, call[c].top_n) :
                   call' = [call EXCEPT ![c] =
                               OpEnds(LookupStart(call[c], 0), "returned", r)]
           ELSE call' = [call EXCEPT ![c] = l.cl]
    /\ UNCHANGED <<cache, remote, files, last, prev, calls, changes, rk, pool, rs, np, fw>>

\* the steps of analyze_special_trends
TrendStep(c) ==
    \/ CallTrend(c)
    \/ TrendFetch(c, FALSE)
    \/ TrendFetch(c, TRUE)
    \/ TrendNoData(c)
    \/ Trend(c)
    \/ TrendPrice(c, FALSE)
    \/ TrendPrice(c, TRUE)
    \/ TrendStartPrice(c, FALSE)
    \/ TrendStartPrice(c, TRUE)

(***************************************************************************)
(* fetch_top_investors.py: the script that writes the local files         *)
(***************************************************************************)
\* "top_n=100" of process_investor
WriterTopN == 100
\* "for i in range(10)"
WriterDaysBack == 10

RECURSIVE IntOf(_)
\* the number pd.read_csv makes of a column of digit strings
IntOf(s) == IF s = <<>> THEN 0 ELSE IntOf(SubSeq(s, 1, Len(s) - 1)) * 10 + s[Len(s)]

\* df[['종목명', '순매수거래대금']].to_csv(filename): the index column 티커 and
\* the two columns, as pd.read_csv parses the file
CsvOf(df) ==
    Csv(TRUE, [i \in DOMAIN df |->
                  [ticker |-> IntOf(df[i].ticker), name |-> df[i].name, amt |-> df[i].amt]])

\* main(): target_date is now or sys.argv[1]; the first process_investor is
\* that of the foreigner class
WriterMain ==
    /\ fw.pc \in {"idle", "done"}
    /\ calls < MaxCalls
    /\ calls' = calls + 1
    /\ \E d \in ReqDates :
          fw' = [NoWriter EXCEPT !.pc = "fetch", !.date = d, !.k = 1,
                                 !.wrote = fw.wrote]
    /\ UNCHANGED <<cache, remote, files, call, last, prev, faults, changes, rk, pool, rs, np>>

\* where main() goes on after the process_investor of investors[fw.k]: its
\* loop steps one day back while the foreigner class has no data, and it
\* drops the result of the two other classes
WriterNext(w, success) ==
    IF w.k = 1 /\ ~success
    THEN IF w.i + 1 < WriterDaysBack
         THEN [w EXCEPT !.pc = "fetch", !.date = @ - 1, !.i = @ + 1, !.df = <<>>,
                        !.side = ""]
         ELSE [w EXCEPT !.pc = "done", !.df = <<>>, !.side = ""]
    ELSE IF w.k < Len(investors)
         THEN [w EXCEPT !.pc = "fetch", !.k = @ + 1, !.df = <<>>, !.side = ""]
         ELSE [w EXCEPT !.pc = "done", !.df = <<>>, !.side = ""]

\* get_investor_data(date, investor_type) of the script and "if df.empty:
\* return False".  raises: the provider's call raises and the except clause
\* gives an empty table
WriterFetch(raises) ==
    /\ fw.pc = "fetch"
    /\ IF raises THEN faults < MaxFaults /\ faults' = faults + 1 ELSE UNCHANGED faults
    /\ LET df == IF raises THEN <<>> ELSE RemoteNet(remote, fw.date, investors[fw.k])
       IN  fw' = IF df = <<>> THEN WriterNext(fw, FALSE)
                 ELSE [fw EXCEPT !.pc = "open", !.df = df, !.side = "buy"]
    /\ UNCHANGED <<cache, remote, files, call, last, prev, calls, changes, rk, pool, rs, np>>

\* to_csv opens the file for writing: it is there and empty, and pd.read_csv
\* of it raises, until the rows are written
WriterOpen ==
    /\ fw.pc = "open"
    /\ files' = (<<investor_code_map[investors[fw.k]], fw.side, fw.date>> :> Unreadable)
                    @@ files
    /\ fw' = [fw EXCEPT !.pc = "write", !.wrote = TRUE]
    /\ UNCHANGED <<cache, remote, call, last, prev, calls, faults, changes, rk, pool, rs, np>>

\* the rows of df.sort_values(...).head(top_n) reach the file: descending for
\* the buy file, ascending for the sell file
WriterWrite ==
    /\ fw.pc = "write"
    /\ \E s \in SortByAmt(fw.df, fw.side = "buy") :
          files' = (<<investor_code_map[investors[fw.k]], fw.side, fw.date>>
                        :> CsvOf(DfHead(s, WriterTopN))) @@ files
    /\ fw' = IF fw.side = "buy"
             THEN [fw EXCEPT !.pc = "open", !.side = "sell"]
             ELSE WriterNext(fw, TRUE)
    /\ UNCHANGED <<cache, remote, call, last, prev, calls, faults, changes, rk, pool, rs, np>>

\* the steps of the script
WriterStep ==
    \/ WriterMain
    \/ WriterFetch(FALSE)
    \/ WriterFetch(TRUE)
    \/ WriterOpen
    \/ WriterWrite

(***************************************************************************)
(* The provider                                                            *)
(***************************************************************************)
\* the provider publishes a day's table, or revises it
RemoteChange ==
    /\ changes < MaxRemoteChanges
    /\ changes' = changes + 1
    /\ \E d \in DataDates :
          /\ remote[d] < 2
          /\ remote' = [remote EXCEPT ![d] = remote[d] + 1]
    /\ UNCHANGED <<cache, files, call, last, prev, calls, faults, rk, pool, rs, np, fw>>

(***************************************************************************)
(* Specifications                                                          *)
(***************************************************************************)
\* the steps of get_investor_data
FetchStep(c) ==
    \/ CacheQueryFails(c)
    \/ CacheQuery(c)
    \/ RemoteQueryFails(c)
    \/ RemoteQuery(c)
    \/ BulkInsertFails(c)
    \/ BulkInsert(c)
    \/ Fallback(c)
    \/ FallbackSell(c)

\* the steps of get_aggregated_top_stocks
AggStep(c) ==
    \/ CallAgg(c)
    \/ AggQueryFails(c)
    \/ AggQuery(c)
    \/ AggPrice(c, FALSE)
    \/ AggPrice(c, TRUE)

Step(c) ==
    \/ CallFetch(c)
    \/ CallTop(c)
    \/ CallJob(c)
    \/ FetchStep(c)
    \/ MarketPriceFails(c)
    \/ MarketPrice(c)
    \/ AggStep(c)

Next == (\E c \in Callers : Step(c)) \/ RemoteChange

\* two callers, a provider that changes, failures
Spec == Init /\ [][Next]_vars

NextSeq == \E c \in Requesters : Step(c)

\* one caller making its calls in sequence, nothing else changing the store,
\* the provider or the files
SpecSeq == Init /\ [][NextSeq]_vars

NextFiles ==
    (\E c \in Requesters : CallFetch(c) \/ FetchStep(c)) \/ WriterStep \/ RemoteChange

\* one caller of get_investor_data making its calls in sequence, the script
\* that writes the files running beside it, a provider that changes, failures
SpecFiles == Init /\ [][NextFiles]_vars

NextAnalysis ==
    \/ \E c \in Requesters : CallFetch(c) \/ FetchStep(c) \/ AggStep(c) \/ TrendStep(c)
    \/ RemoteChange

\* a deployment without local files
InitAnalysis == Init /\ files = <<>>

\* one caller making in sequence its calls of get_investor_data, of
\* get_aggregated_top_stocks and of analyze_special_trends, and a provider
\* that changes between any two of its queries
SpecAnalysis == InitAnalysis /\ [][NextAnalysis]_vars

(***************************************************************************)
(* The ranking computations on their own, over every small table           *)
(***************************************************************************)
\* rows of a table
MaxRows == 3
\* the largest top_n tried
MaxTopN == 3

RankNames == <<"A", "B", "C", "D", "E", "F">>
RankAmounts == {-100, 300, 500}
RankRowSet == {Row(TK(n), RankNames[n], a) : n \in 1..MaxRows, a \in RankAmounts}

\* the tables of at most MaxRows rows, one row per ticker
RankTables ==
    {t \in UNION {[1..k -> RankRowSet] : k \in 0..MaxRows} :
        \A i, j \in DOMAIN t : i # j => t[i].ticker # t[j].ticker}

RankTopNs == -1..MaxTopN

RankPrice == PriceFamily(2)

\* the earlier surviving days of a trend computation
RankEarlierDays ==
    { <<>>,
      <<[date |-> Today - 1, df |-> <<Row(TK(1), "A", 300), Row(TK(2), "B", -100)>>]>>,
      <<[date |-> Today - 1, df |-> <<Row(TK(1), "A", 300), Row(TK(3), "C", 500)>>],
        [date |-> Today - 3, df |-> <<Row(TK(1), "A", 500)>>]>> }

InitRank ==
    /\ cache = {}
    /\ remote = (Today - 1 :> 0 @@ Today :> 0)
    /\ files = <<>>
    /\ call = [c \in Callers |-> IdleCall]
    /\ last = [c \in Callers |-> NoFetch]
    /\ prev = [c \in Callers |-> NoFetch]
    /\ calls = 0
    /\ faults = 0
    /\ changes = 0
    /\ rk \in {[kind |-> "in", df |-> t, top_n |-> n] : t \in RankTables, n \in RankTopNs}
    /\ pool = NoPool
    /\ rs = NoResolve
    /\ np = NoLookup
    /\ fw = NoWriter

\* the rankings of get_top_net_buy_sell for a fetched (non-empty) table
RankDay ==
    /\ rk.kind = "in"
    /\ rk.df # <<>>
    /\ \E r \in TopResult(rk.df, rk.top_n, RankPrice, Today) :
          rk' = [kind |-> "top", df |-> rk.df, top_n |-> rk.top_n,
                 buy |-> r.buy, sell |-> r.sell]
    /\ UNCHANGED <<cache, remote, files, call, last, prev, calls, faults, changes, pool, rs, np, fw>>

\* the rankings of get_aggregated_top_stocks for a non-empty range table
RankRange ==
    /\ rk.kind = "in"
    /\ rk.df # <<>>
    /\ \E b \in BuyList(rk.df, rk.top_n, RankPrice),
          s \in SellList(rk.df, rk.top_n, RankPrice) :
          rk' = [kind |-> "agg", df |-> rk.df, top_n |-> rk.top_n,
                 buy |-> b, sell |-> s]
    /\ UNCHANGED <<cache, remote, files, call, last, prev, calls, faults, changes, pool, rs, np, fw>>

\* the two lists of analyze_special_trends with rk.df the most recent day
RankTrend ==
    /\ rk.kind = "in"
    /\ rk.df # <<>>
    /\ \E earlier \in RankEarlierDays :
          LET kept == <<[date |-> Today, df |-> rk.df]>> \o earlier
          IN  \E p \in trend_lists(kept, rk.df, RankPrice, NoPrice, rk.top_n) :
                 rk' = [kind |-> "trend", df |-> rk.df, top_n |-> rk.top_n,
                        kept |-> kept, consecutive |-> p[1], new_inflow |-> p[2]]
    /\ UNCHANGED <<cache, remote, files, call, last, prev, calls, faults, changes, pool, rs, np, fw>>

NextRank == RankDay \/ RankRange \/ RankTrend

SpecRank == InitRank /\ [][NextRank]_vars

(***************************************************************************)
(* analyze_special_trends with its worker pool, step by step               *)
(***************************************************************************)
\* ThreadPoolExecutor(max_workers=5)
max_workers == 5

\* the largest days tried
MaxPoolDays == 1
\* the values of days tried: 1 gives seven candidate dates, 0 five, -1 three,
\* -2 one and -3 none
PoolDays == -3..MaxPoolDays

\* the provider's data of the last three days
PoolRemoteInits ==
    { (Today - 2 :> 0 @@ Today - 1 :> 0 @@ Today :> 0),
      (Today - 2 :> 1 @@ Today - 1 :> 0 @@ Today :> 1),
      (Today - 2 :> 1 @@ Today - 1 :> 1 @@ Today :> 2) }

\* executor.submit(get_daily_raw_data, d, investor_type): a future, not started
Future(d) == [date |-> d, st |-> "queued", runs |-> 0, df |-> <<>>, got |-> FALSE]

Running(p) == {k \in DOMAIN p.fut : p.fut[k].st = "running"}

\* a pool that starts a thread for every submitted call
WorkerSlotAlways(p) == TRUE
\* the executor runs at most max_workers calls at a time
WorkerSlotFree(p) == Cardinality(Running(p)) < max_workers

\* a loop over the futures that ends with the first result
AnyCollected(p) == \E k \in DOMAIN p.fut : p.fut[k].got
\* "for future in as_completed(futures)" has yielded every future, and the
\* with block has been left
AllCollected(p) ==
    /\ Len(p.fut) = Len(p.dates)
    /\ \A k \in DOMAIN p.fut : p.fut[k].got

InitPool ==
    /\ cache = {}
    /\ remote \in PoolRemoteInits
    /\ files = <<>>
    /\ call = [c \in Callers |-> IdleCall]
    /\ last = [c \in Callers |-> NoFetch]
    /\ prev = [c \in Callers |-> NoFetch]
    /\ calls = 0
    /\ faults = 0
    /\ changes = 0
    /\ rk = NoRank
    /\ pool = NoPool
    /\ rs = NoResolve
    /\ np = NoLookup
    /\ fw = NoWriter

\* analyze_special_trends(days, investor_type): the candidate dates
PoolCall ==
    /\ pool.phase = "idle"
    /\ \E days \in PoolDays, i \in OpInvestors :
          pool' = [NoPool EXCEPT !.phase = IF dates_to_check(days) = <<>>
                                           THEN "collect" ELSE "submit",
                                 !.days = days, !.inv = i, !.top_n = TrendTopN,
                                 !.dates = dates_to_check(days)]
    /\ UNCHANGED <<cache, remote, files, call, last, prev, calls, faults, changes, rk, rs, np, fw>>

\* the parent submits the call for the next candidate date
PoolSubmit ==
    /\ pool.phase = "submit"
    /\ LET k == Len(pool.fut) + 1
       IN  pool' = [pool EXCEPT !.fut = Append(@, Future(pool.dates[k])),
                                !.phase = IF k = Len(pool.dates) THEN "collect"
                                          ELSE "submit"]
    /\ UNCHANGED <<cache, remote, files, call, last, prev, calls, faults, changes, rk, rs, np, fw>>

\* a worker thread takes the oldest queued call
WorkerStart ==
    /\ WorkerSlotFree(pool)
    /\ \E k \in DOMAIN pool.fut :
          /\ pool.fut[k].st = "queued"
          /\ \A j \in 1..(k - 1) : pool.fut[j].st # "queued"
          /\ pool' = [pool EXCEPT !.fut[k].st = "running", !.fut[k].runs = @ + 1]
    /\ UNCHANGED <<cache, remote, files, call, last, prev, calls, faults, changes, rk, rs, np, fw>>

\* get_daily_raw_data returns the provider's table of its date
WorkerReturns ==
    /\ \E k \in Running(pool) :
          pool' = [pool EXCEPT
                      !.fut[k].st = "done",
                      !.fut[k].df = get_daily_raw_data(remote, pool.fut[k].date,
                                                       pool.inv, {}).df]
    /\ UNCHANGED <<cache, remote, files, call, last, prev, calls, faults, changes, rk, rs, np, fw>>

\* the provider's call raises in get_daily_raw_data: the bare except gives an
\* empty table
WorkerFails ==
    /\ faults < MaxFaults
    /\ faults' = faults + 1
    /\ \E k \in Running(pool) :
          pool' = [pool EXCEPT
                      !.fut[k].st = "done",
                      !.fut[k].df = get_daily_raw_data(remote, pool.fut[k].date,
                                                       pool.inv, {pool.fut[k].date}).df]
    /\ UNCHANGED <<cache, remote, files, call, last, prev, calls, changes, rk, rs, np, fw>>

\* the parent's loop over as_completed(futures): it takes a finished future
\* and appends its table, when not empty, to raw_results
PoolCollect ==
    /\ pool.phase = "collect"
    /\ \E k \in DOMAIN pool.fut :
          /\ pool.fut[k].st = "done"
          /\ ~pool.fut[k].got
          /\ pool' = [pool EXCEPT
                         !.fut[k].got = TRUE,
                         !.raw = IF pool.fut[k].df # <<>>
                                 THEN Append(@, [date |-> pool.fut[k].date,
                                                 df |-> pool.fut[k].df])
                                 ELSE @]
    /\ UNCHANGED <<cache, remote, files, call, last, prev, calls, faults, changes, rk, rs, np, fw>>

\* "if not raw_results: return None"
PoolNoData ==
    /\ pool.phase = "collect"
    /\ AllCollected(pool)
    /\ pool.raw = <<>>
    /\ pool' = [pool EXCEPT !.phase = "done", !.outcome = "returned", !.res = NullRes]
    /\ UNCHANGED <<cache, remote, files, call, last, prev, calls, faults, changes, rk, rs, np, fw>>

\* the truncation leaves no day: "today_date, today_df = raw_results[0]" raises
\* IndexError
PoolRaises ==
    /\ pool.phase = "collect"
    /\ AllCollected(pool)
    /\ pool.raw # <<>>
    /\ kept_results(SortByDate(pool.raw), pool.days) = <<>>
    /\ pool' = [pool EXCEPT !.phase = "done", !.outcome = "raised"]
    /\ UNCHANGED <<cache, remote, files, call, last, prev, calls, faults, changes, rk, rs, np, fw>>

\* the sort and the truncation; the price lookup of the most recent day begins
PoolResult ==
    /\ pool.phase = "collect"
    /\ AllCollected(pool)
    /\ pool.raw # <<>>
    /\ LET kept == kept_results(SortByDate(pool.raw), pool.days)
       IN  /\ kept # <<>>
           /\ pool' = LookupStart([pool EXCEPT !.phase = "price", !.kept = kept],
                                  kept[1].date)
    /\ UNCHANGED <<cache, remote, files, call, last, prev, calls, faults, changes, rk, rs, np, fw>>

\* one price query of price_df = get_nearest_market_price(today_date)
PoolPrice(raises) ==
    /\ pool.phase = "price"
    /\ IF raises THEN faults < MaxFaults /\ faults' = faults + 1 ELSE UNCHANGED faults
    /\ LET l == LookupStep(pool, get_market_price(remote, pool.ptarget, raises))
       IN  IF l.done
           THEN pool' = LookupStart([pool EXCEPT !.phase = "startprice", !.price = l.df],
                                    pool.kept[Len(pool.kept)].date)
           ELSE pool' = l.cl
    /\ UNCHANGED <<cache, remote, files, call, last, prev, calls, changes, rk, rs, np, fw>>

\* one price query of start_price_df = get_nearest_market_price(oldest_date);
\* the lookup over, the two sets and their lists
PoolStartPrice(raises) ==
    /\ pool.phase = "startprice"
    /\ IF raises THEN faults < MaxFaults /\ faults' = faults + 1 ELSE UNCHANGED faults
    /\ LET l == LookupStep(pool, get_market_price(remote, pool.ptarget, raises))
       IN  IF l.done
           THEN \E r \in TrendResults(pool.kept, pool.price, l.df, pool.top_n) :
                   pool' = [LookupStart(pool, 0) EXCEPT !.phase = "done",
                                                        !.outcome = "returned",
                                                        !.start_price = l.df, !.res = r]
           ELSE pool' = l.cl
    /\ UNCHANGED <<cache, remote, files, call, last, prev, calls, changes, rk, rs, np, fw>>

NextPool ==
    \/ PoolCall
    \/ PoolSubmit
    \/ WorkerStart
    \/ WorkerReturns
    \/ WorkerFails
    \/ PoolCollect
    \/ PoolNoData
    \/ PoolRaises
    \/ PoolResult
    \/ PoolPrice(FALSE)
    \/ PoolPrice(TRUE)
    \/ PoolStartPrice(FALSE)
    \/ PoolStartPrice(TRUE)
    \/ RemoteChange

\* one analysis, its parent thread and its workers, and a provider that changes
\* between any two of its queries
SpecTrend == InitPool /\ [][NextPool]_vars

(***************************************************************************)
(* get_start_date_n_trading_days_ago                                       *)
(***************************************************************************)
\* the largest days tried
MaxResolverDays == 4
ResolverDays == -1..MaxResolverDays

\* the days the exchange's calendar may hold as trading days
CalendarDates == {Today - 30, Today - 3, Today - 2, Today - 1, Today}

\* "lookback = days * 3 + 20"
lookback(days) == days * 3 + 20

\* stock.get_index_ohlcv_by_date(start_str, end_str, "1001"): the trading days
\* of the calendar from start to end
get_index_ohlcv_by_date(cal, start, end) == {d \in cal : start <= d /\ d <= end}

RECURSIVE business_days(_)
\* df.index.sort_values(ascending=False).tolist()
business_days(idx) ==
    IF idx = {} THEN <<>>
    ELSE LET m == CHOOSE d \in idx : \A e \in idx : e <= d
         IN  <<m>> \o business_days(idx \ {m})

\* a resolver that takes business_days[days]
get_start_date_one_too_far(cal, days, fails) ==
    LET idx == get_index_ohlcv_by_date(cal, Today - lookback(days), Today)
        bd == business_days(idx)
    IN  IF fails \/ idx = {} THEN Today - days
        ELSE IF Len(bd) < days THEN bd[Len(bd)]
        ELSE IF days >= 0 THEN (IF days < Len(bd) THEN bd[days + 1] ELSE Today - days)
        ELSE IF Len(bd) + days >= 0 THEN bd[Len(bd) + days + 1]
        ELSE Today - days

\* get_start_date_n_trading_days_ago(days) for a calendar cal; fails: the index
\* query raises.  business_days[days-1] is a Python index: a negative one counts
\* from the end, and one out of range raises IndexError into the except clause
get_start_date_n_trading_days_ago(cal, days, fails) ==
    LET idx == get_index_ohlcv_by_date(cal, Today - lookback(days), Today)
        bd == business_days(idx)
    IN  IF fails \/ idx = {} THEN Today - days
        ELSE IF Len(bd) < days THEN bd[Len(bd)]
        ELSE IF days - 1 >= 0 THEN bd[days]
        ELSE IF Len(bd) + (days - 1) >= 0 THEN bd[Len(bd) + (days - 1) + 1]
        ELSE Today - days

InitDates ==
    /\ cache = {}
    /\ remote = (Today - 1 :> 0 @@ Today :> 0)
    /\ files = <<>>
    /\ call = [c \in Callers |-> IdleCall]
    /\ last = [c \in Callers |-> NoFetch]
    /\ prev = [c \in Callers |-> NoFetch]
    /\ calls = 0
    /\ faults = 0
    /\ changes = 0
    /\ rk = NoRank
    /\ pool = NoPool
    /\ rs \in {[kind |-> "in", days |-> n, cal |-> cal] :
                  n \in ResolverDays, cal \in SUBSET CalendarDates}
    /\ np = NoLookup
    /\ fw = NoWriter

\* what a call of the resolver leaves: its input, what the index query gave,
\* and the date returned
Resolved(fails) ==
    [kind |-> "out", days |-> rs.days, cal |-> rs.cal, failed |-> fails,
     idx |-> IF fails THEN {}
             ELSE get_index_ohlcv_by_date(rs.cal, Today - lookback(rs.days), Today),
     date |-> get_start_date_n_trading_days_ago(rs.cal, rs.days, fails)]

\* the index query gives trading days
ResolveFromIndex ==
    /\ rs.kind = "in"
    /\ Resolved(FALSE).idx # {}
    /\ rs' = Resolved(FALSE)
    /\ UNCHANGED <<cache, remote, files, call, last, prev, calls, faults, changes, rk, pool, np, fw>>

\* the index query gives an empty table
ResolveIndexEmpty ==
    /\ rs.kind = "in"
    /\ Resolved(FALSE).idx = {}
    /\ rs' = Resolved(FALSE)
    /\ UNCHANGED <<cache, remote, files, call, last, prev, calls, faults, changes, rk, pool, np, fw>>

\* the index query raises
ResolveIndexFails ==
    /\ rs.kind = "in"
    /\ rs' = Resolved(TRUE)
    /\ UNCHANGED <<cache, remote, files, call, last, prev, calls, faults, changes, rk, pool, np, fw>>

NextDates == ResolveFromIndex \/ ResolveIndexEmpty \/ ResolveIndexFails

\* the resolver on its own, over every small calendar
SpecDates == InitDates /\ [][NextDates]_vars

(***************************************************************************)
(* get_nearest_market_price, one price query at a time                     *)
(***************************************************************************)
\* the dates a lookup is asked for
PriceReqDates == {Today - 1, Today}

\* the provider's prices at the start of a lookup: none; the requested day;
\* two and three days back; the last day of the window; the day behind it
PriceRemoteInits ==
    { <<>>,
      (Today :> 1),
      (Today - 2 :> 1 @@ Today - 3 :> 2),
      (Today - 6 :> 2),
      (Today - 7 :> 1),
      (Today - 1 :> 2 @@ Today - 8 :> 1) }

InitPrice ==
    /\ cache = {}
    /\ remote \in PriceRemoteInits
    /\ files = <<>>
    /\ call = [c \in Callers |-> IdleCall]
    /\ last = [c \in Callers |-> NoFetch]
    /\ prev = [c \in Callers |-> NoFetch]
    /\ calls = 0
    /\ faults = 0
    /\ changes = 0
    /\ rk = NoRank
    /\ pool = NoPool
    /\ rs = NoResolve
    /\ np = NoLookup
    /\ fw = NoWriter

\* get_nearest_market_price(date_str): target = the date asked for
PriceCall ==
    /\ np.phase = "none"
    /\ \E d \in PriceReqDates :
          np' = [phase |-> "loop", date |-> d, target |-> d, queried |-> <<>>,
                 raised |-> {}, res |-> NoPrice]
    /\ UNCHANGED <<cache, remote, files, call, last, prev, calls, faults, changes, rk, pool, rs, fw>>

\* one iteration: df = get_market_price(curr_str); return df when it has rows,
\* else target -= timedelta(days=1)
PriceStep(raises) ==
    LET df == get_market_price(remote, np.target, raises)
        q  == Append(np.queried, [date |-> np.target, df |-> df])
        r  == IF raises THEN np.raised \cup {np.target} ELSE np.raised
    IN  IF DOMAIN df # {}
        THEN [np EXCEPT !.phase = "done", !.queried = q, !.raised = r, !.res = df]
        ELSE [np EXCEPT !.target = @ - 1, !.queried = q, !.raised = r]

\* an iteration whose price query answers
PriceQuery ==
    /\ np.phase = "loop"
    /\ LookbackLeft(Len(np.queried))
    /\ np' = PriceStep(FALSE)
    /\ UNCHANGED <<cache, remote, files, call, last, prev, calls, faults, changes, rk, pool, rs, fw>>

\* an iteration whose price query raises inside get_market_price
PriceQueryFails ==
    /\ np.phase = "loop"
    /\ LookbackLeft(Len(np.queried))
    /\ np' = PriceStep(TRUE)
    /\ UNCHANGED <<cache, remote, files, call, last, prev, calls, faults, changes, rk, pool, rs, fw>>

\* the loop is used up: return pd.DataFrame()
PriceGiveUp ==
    /\ np.phase = "loop"
    /\ ~LookbackLeft(Len(np.queried))
    /\ np' = [np EXCEPT !.phase = "done", !.res = NoPrice]
    /\ UNCHANGED <<cache, remote, files, call, last, prev, calls, faults, changes, rk, pool, rs, fw>>

NextPrice == PriceCall \/ PriceQuery \/ PriceQueryFails \/ PriceGiveUp

\* the price lookup on its own
SpecPrice == InitPrice /\ [][NextPrice]_vars

(***************************************************************************)
(* Claims                                                                  *)
(***************************************************************************)
Finished(c) == last[c].valid
Returned(c) == last[c].valid /\ last[c].outcome = "returned"
SameKeyCalls(a, b) == a.valid /\ b.valid /\ a.date = b.date /\ a.inv = b.inv

\* C1: a get_investor_data call made while the store holds records for
\* (date, investor) makes no remote query, reads no local file and writes
\* nothing, and what it returns is exactly those records.
C1_CachePrecedence ==
    \A c \in Callers :
        /\ call[c].seen # {} => call[c].pc \notin {"remote", "insert", "fallback", "fallback_sell"}
        /\ (Finished(c) /\ last[c].seen # {}) =>
              /\ last[c].rq = "none"
              /\ ~last[c].fr
              /\ last[c].ins = "none"
              /\ last[c].outcome = "returned" =>
                    /\ RowsOf(last[c].out) = last[c].seen
                    /\ Len(last[c].out) = Cardinality(last[c].seen)

C1_Witness ==
    \E c \in Callers :
        /\ Returned(c)
        /\ last[c].q = "hit"
        /\ Cardinality(last[c].seen) = 2

\* C2 as stated: two calls in sequence for the same (date, investor), nothing
\* having failed, return identical record sets and the second makes no remote
\* query.
C2_Original ==
    \A c \in Callers :
        (SameKeyCalls(prev[c], last[c]) /\ prev[c].outcome = "returned" /\ Returned(c)
            /\ faults = 0) =>
            /\ RowsOf(last[c].out) = RowsOf(prev[c].out)
            /\ last[c].rq = "none"

\* C2 amended: of two calls in sequence for the same (date, investor), when the
\* first returned leaving records for the key in the store, the second makes no
\* remote query, reads no file, and returns the same record set; when the first
\* found the remote table empty, the second returns the same record set.
C2_Amended ==
    \A c \in Callers :
        (SameKeyCalls(prev[c], last[c]) /\ prev[c].outcome = "returned") =>
            /\ prev[c].keyrows # {} =>
                  /\ last[c].rq = "none"
                  /\ ~last[c].fr
                  /\ last[c].outcome = "returned" =>
                        RowsOf(last[c].out) = RowsOf(prev[c].out)
            /\ (prev[c].rq = "empty" /\ last[c].outcome = "returned") =>
                  RowsOf(last[c].out) = RowsOf(prev[c].out)

C2_Witness ==
    \E c \in Callers :
        /\ SameKeyCalls(prev[c], last[c])
        /\ prev[c].outcome = "returned"
        /\ prev[c].ins = "ok"
        /\ Returned(c)
        /\ last[c].q = "hit"

\* C3 as stated: a call that missed the cache and got a non-empty remote table
\* returns that table, and on return the store holds exactly its rows under
\* (date, investor); stated for the runs in which nothing fails.
C3_PopulateOnMiss ==
    \A c \in Callers :
        (Returned(c) /\ last[c].q = "miss" /\ last[c].rq = "table" /\ faults = 0) =>
            /\ last[c].out = last[c].rtab
            /\ last[c].keyrows = RowsOf(last[c].rtab)

\* C4 as stated: get_investor_data never raises, whatever fails.
C4_NeverRaises ==
    \A c \in Callers : Finished(c) => last[c].outcome = "returned"

\* the files a fallback for (date, investor) reads, taken from fs
FilesRead(fs, date, investor_type) ==
    IF investor_type \notin DOMAIN investor_code_map THEN <<>>
    ELSE LET code == investor_code_map[investor_type]
         IN  [n \in {<<code, "buy", date>>, <<code, "sell", date>>} |-> FileAt(fs, n)]

\* C5: a call that missed the cache and whose remote query raised returns, without
\* having written to the store, the rows assembled from the local files of
\* (investor, date): the empty table when neither file exists.
C5_RemoteFailureDegrades ==
    \A c \in Callers :
        /\ call[c].rq = "raised" => (call[c].pc # "insert" /\ call[c].ins = "none")
        /\ (Finished(c) /\ last[c].q = "miss" /\ last[c].rq = "raised") =>
              /\ last[c].outcome = "returned"
              /\ last[c].ins = "none"
              /\ last[c].fr
              /\ last[c].out = LocalFallback(last[c].fseen, last[c].date, last[c].inv)
              /\ ~fw.wrote => last[c].fseen = FilesRead(files, last[c].date, last[c].inv)
              /\ (\A code \in {"foreigner", "individual", "institution"}, side \in {"buy", "sell"} :
                      FileAt(last[c].fseen, <<code, side, last[c].date>>).kind = "absent")
                    => last[c].out = <<>>

C5_Witness ==
    \E c \in Callers :
        /\ Returned(c)
        /\ last[c].q = "miss"
        /\ last[c].rq = "raised"
        /\ Len(last[c].out) = 3

\* the script wrote the two files of a day from the provider's table; a later
\* call for that day whose remote query raised returned the rows of the
\* files, the buy file's first
C5_WitnessWritten ==
    \E c \in Callers :
        /\ Returned(c)
        /\ last[c].q = "miss"
        /\ last[c].rq = "raised"
        /\ fw.wrote
        /\ files # <<>>
        /\ last[c].fseen = FilesRead(files, last[c].date, last[c].inv)
        /\ last[c].out = <<Row(TK(1), "a", 500), Row(TK(2), "b", -100)>>

\* C6: the store never holds two records with the same (date, investor, ticker).
C6_KeyUniqueness ==
    \A r, x \in cache : SameKey(r, x) => r = x

\* two callers missed the cache for the same key, both got a non-empty remote
\* table, one stored it and the other's insert was refused
C6_Witness ==
    \E a, b \in Callers :
        /\ a # b
        /\ SameKeyCalls(last[a], last[b])
        /\ last[a].q = "miss" /\ last[a].rq = "table" /\ last[a].ins = "ok"
        /\ last[b].q = "miss" /\ last[b].rq = "table" /\ last[b].ins = "failed"
        /\ faults = 0

\* C7 as stated: with no failure of store or provider, a caller that missed the
\* cache and got a non-empty remote table returns that table, also when another
\* caller stored the same keys first.
C7_ReturnsRemoteTable ==
    \A c \in Callers :
        (Returned(c) /\ last[c].q = "miss" /\ last[c].rq = "table" /\ faults = 0) =>
            last[c].out = last[c].rtab

\* C8: a record of the store is never changed and never removed.
C8_RecordsPermanent ==
    [][\A r \in cache : r \in cache']_vars

\* a caller offered the store a different table for a key already stored, and
\* the stored rows stayed
C8_Witness ==
    \E c \in Callers :
        /\ Finished(c)
        /\ last[c].ins = "failed"
        /\ faults = 0
        /\ last[c].keyrows # {}
        /\ last[c].keyrows # RowsOf(last[c].rtab)

NonIncreasing(list) ==
    \A i \in 1..(Len(list) - 1) : list[i].net_buy_amount >= list[i + 1].net_buy_amount
NonDecreasing(list) ==
    \A i \in 1..(Len(list) - 1) : list[i].net_buy_amount <= list[i + 1].net_buy_amount
RanksFromOne(list) == \A i \in DOMAIN list : list[i].rank = i

\* C9: in a buy list, and in a consecutive or new_inflow list, the amounts do not
\* increase with rank; in a sell list they do not decrease; the ranks of every
\* list are 1..len in list order.
C9_RankingOrder ==
    /\ rk.kind \in {"top", "agg"} =>
          /\ NonIncreasing(rk.buy) /\ RanksFromOne(rk.buy)
          /\ NonDecreasing(rk.sell) /\ RanksFromOne(rk.sell)
    /\ rk.kind = "trend" =>
          /\ NonIncreasing(rk.consecutive) /\ RanksFromOne(rk.consecutive)
          /\ NonIncreasing(rk.new_inflow) /\ RanksFromOne(rk.new_inflow)

C9_Witness ==
    /\ rk.kind = "trend"
    /\ Len(rk.consecutive) = 2
    /\ rk.consecutive[1].net_buy_amount > rk.consecutive[2].net_buy_amount
    /\ rk.df[1].amt < rk.df[2].amt

\* the rows of df whose ticker the list does not name
Unlisted(df, list) ==
    {r \in RowsOf(df) : \A i \in DOMAIN list : list[i].ticker # r.ticker}
\* every entry of the list is a row of df, and no ticker is listed twice
ListsRowsOf(df, list) ==
    /\ \A i \in DOMAIN list :
          Row(list[i].ticker, list[i].name, list[i].net_buy_amount) \in RowsOf(df)
    /\ \A i, j \in DOMAIN list : i # j => list[i].ticker # list[j].ticker

ScenarioTable == <<Row(TK(1), "A", 500), Row(TK(2), "B", 300), Row(TK(3), "C", -100)>>

\* C10: for top_n >= 1 the buy list of get_top_net_buy_sell names min(top_n, |T|)
\* tickers of T whose amounts are the largest in T, the sell list as many whose
\* amounts are the smallest; for T = {A: 500, B: 300, C: -100} and top_n = 1 the
\* buy list is A with rank 1 and the sell list C with rank 1.
C10_TopNSelection ==
    (rk.kind = "top" /\ rk.top_n >= 1) =>
        /\ Len(rk.buy) = Min(rk.top_n, Len(rk.df))
        /\ Len(rk.sell) = Min(rk.top_n, Len(rk.df))
        /\ ListsRowsOf(rk.df, rk.buy)
        /\ ListsRowsOf(rk.df, rk.sell)
        /\ \A i \in DOMAIN rk.buy : \A r \in Unlisted(rk.df, rk.buy) :
              r.amt <= rk.buy[i].net_buy_amount
        /\ \A i \in DOMAIN rk.sell : \A r \in Unlisted(rk.df, rk.sell) :
              r.amt >= rk.sell[i].net_buy_amount
        /\ (RowsOf(rk.df) = RowsOf(ScenarioTable) /\ rk.top_n = 1) =>
              /\ Len(rk.buy) = 1 /\ rk.buy[1].ticker = TK(1) /\ rk.buy[1].rank = 1
              /\ Len(rk.sell) = 1 /\ rk.sell[1].ticker = TK(3) /\ rk.sell[1].rank = 1

C10_Witness ==
    /\ rk.kind = "top"
    /\ rk.top_n = 1
    /\ rk.df = <<Row(TK(3), "C", -100), Row(TK(1), "A", 500), Row(TK(2), "B", 300)>>
    /\ Len(rk.buy) = 1

\* the operations of get_top_net_buy_sell made with / without allow_fallback
TopCall(c, allow) == call[c].op = "top" /\ call[c].allow = allow
TopReturned(c, allow) ==
    TopCall(c, allow) /\ call[c].pc = "done" /\ call[c].outcome = "returned"
\* the call found a local file of its (investor, date) and read it
LocalFileRead(c) ==
    \E n \in DOMAIN call[c].fseen : call[c].fseen[n].kind # "absent"

\* C11 as stated: with allow_fallback false, get_top_net_buy_sell fetches no
\* date but the requested one, reads no local file, and returns null when the
\* cache and the remote source both gave nothing for that date.
C11_NoFallbackTiers ==
    \A c \in Callers :
        TopCall(c, FALSE) =>
            /\ call[c].date = call[c].req
            /\ Len(call[c].tried) <= 1
            /\ ~LocalFileRead(c)
            /\ (call[c].pc = "done" /\ call[c].outcome = "returned"
                  /\ call[c].q = "miss" /\ call[c].rq \in {"empty", "raised"})
                 => call[c].res = NullRes

\* the price tables a ranking may have been made with
PriceTables == {NoPrice} \cup {PriceFamily(id) : id \in TableIds}

\* C12: with allow_fallback true, get_top_net_buy_sell fetches the requested
\* date and then each preceding day in turn, at most 11 fetches, every fetch
\* before the last being empty; it returns the rankings of the first non-empty
\* table under that table's date, and null only after 11 empty fetches.
C12_DayStepping ==
    \A c \in Callers :
        TopCall(c, TRUE) =>
            /\ Len(call[c].tried) <= MAX_DAYS_BACK + 1
            /\ \A k \in DOMAIN call[c].tried :
                  /\ call[c].tried[k].date = call[c].req - (k - 1)
                  /\ k < Len(call[c].tried) => call[c].tried[k].rows = 0
            /\ call[c].pc \in {"query", "remote", "insert", "fallback", "fallback_sell"} =>
                  call[c].date = call[c].req - Len(call[c].tried)
            /\ TopReturned(c, TRUE) =>
                  LET n == Len(call[c].tried)
                  IN  /\ n >= 1
                      /\ call[c].res = NullRes <=>
                            (n = MAX_DAYS_BACK + 1 /\ call[c].tried[n].rows = 0)
                      /\ call[c].res # NullRes =>
                            /\ call[c].tried[n].rows = Len(call[c].df)
                            /\ call[c].df # <<>>
                            /\ call[c].res.date = call[c].tried[n].date
                            /\ \E p \in PriceTables :
                                  call[c].res \in TopResult(call[c].df, call[c].top_n, p,
                                                             call[c].tried[n].date)

\* the requested day had nothing, cache and provider and files, and the day
\* before had a table
C12_Witness ==
    \E c \in Callers :
        /\ TopReturned(c, TRUE)
        /\ Len(call[c].tried) = 2
        /\ call[c].res # NullRes
        /\ call[c].res.date = call[c].req - 1

\* eleven days without data
C12_WitnessNull ==
    \E c \in Callers :
        /\ TopReturned(c, TRUE)
        /\ Len(call[c].tried) = MAX_DAYS_BACK + 1
        /\ call[c].res = NullRes

\* C13: no step of get_aggregated_top_stocks or analyze_special_trends changes
\* the cache store, and none goes through the cache-backed fetcher (the only
\* reader of the store).
C13_RangeTrendBypassCache ==
    [][\A c \in Callers :
          (call'[c] # call[c] /\ call'[c].op \in {"agg", "trend"}) =>
              /\ cache' = cache
              /\ last' = last /\ prev' = prev
              /\ call'[c].pc \notin {"query", "remote", "insert", "fallback", "fallback_sell"}
              /\ call'[c].q = "none" /\ call'[c].ins = "none"]_vars

\* a range query returned rankings of the provider's table and the store holds
\* no record of the range's days
C13_Witness ==
    \E c \in Callers :
        /\ call[c].op = "agg" /\ call[c].pc = "done"
        /\ call[c].res # NullRes /\ call[c].res.kind = "agg"
        /\ Len(call[c].res.buy) >= 1
        /\ \A d \in call[c].start..call[c].date : CachedRows(cache, d, call[c].inv) = {}

\* a trend analysis returned lists and the store holds no record of its days
C13_WitnessTrend ==
    \E c \in Callers :
        /\ call[c].op = "trend" /\ call[c].pc = "done"
        /\ call[c].res # NullRes /\ call[c].res.kind = "trend"
        /\ call[c].res.days_analyzed = 2
        /\ cache = {}

\* ticker t has a positive amount in table df
PositiveIn(t, df) == \E i \in DOMAIN df : df[i].ticker = t /\ df[i].amt > 0
ListTickers(list) == {list[i].ticker : i \in DOMAIN list}
KeptTickers(kept) == UNION {TickersOf(kept[k].df) : k \in DOMAIN kept}
BoughtEveryDay(kept) ==
    {t \in KeptTickers(kept) : \A k \in DOMAIN kept : PositiveIn(t, kept[k].df)}
BoughtTodayOnly(kept) ==
    {t \in KeptTickers(kept) :
        /\ PositiveIn(t, kept[1].df)
        /\ \A k \in 2..Len(kept) : ~PositiveIn(t, kept[k].df)}
\* X = ticker 1 bought on each of three days, Y = ticker 2 bought on the most
\* recent day only
ThreeDayScenario ==
    /\ rk.kind = "trend"
    /\ Len(rk.kept) = 3
    /\ rk.df = <<Row(TK(1), "A", 500), Row(TK(2), "B", 300)>>
    /\ rk.top_n >= 2

\* C14: every ticker of the consecutive list is a net buy in the table of every
\* kept day; a list that top_n does not cut holds every such ticker; with X
\* bought on all three days and Y on the most recent only, consecutive = {X}.
C14_ConsecutiveSet ==
    rk.kind = "trend" =>
        /\ ListTickers(rk.consecutive) \subseteq BoughtEveryDay(rk.kept)
        /\ rk.top_n >= Cardinality(BoughtEveryDay(rk.kept)) =>
              ListTickers(rk.consecutive) = BoughtEveryDay(rk.kept)
        /\ ThreeDayScenario => ListTickers(rk.consecutive) = {TK(1)}

C14_Witness ==
    /\ ThreeDayScenario
    /\ Len(rk.consecutive) = 1
    /\ rk.consecutive[1].ticker = TK(1)

\* C15: every ticker of the new_inflow list is a net buy on the most recent
\* kept day and on no other kept day; a list that top_n does not cut holds
\* every such ticker; in the three-day scenario new_inflow = {Y}.
C15_NewInflowSet ==
    rk.kind = "trend" =>
        /\ ListTickers(rk.new_inflow) \subseteq BoughtTodayOnly(rk.kept)
        /\ rk.top_n >= Cardinality(BoughtTodayOnly(rk.kept)) =>
              ListTickers(rk.new_inflow) = BoughtTodayOnly(rk.kept)
        /\ ThreeDayScenario => ListTickers(rk.new_inflow) = {TK(2)}

C15_Witness ==
    /\ ThreeDayScenario
    /\ Len(rk.new_inflow) = 1
    /\ rk.new_inflow[1].ticker = TK(2)
    /\ rk.new_inflow[1].rank = 1

PoolDone == pool.phase = "done"
PoolGaveResult == PoolDone /\ pool.outcome = "returned" /\ pool.res # NullRes
\* the candidate dates whose worker gave a non-empty table
Surviving == {pool.fut[k].date : k \in {j \in DOMAIN pool.fut : pool.fut[j].df # <<>>}}
\* the n most recent of a set of dates
MostRecent(S, n) == {d \in S : Cardinality({e \in S : e > d}) < n}
SetMax(S) == CHOOSE d \in S : \A e \in S : e <= d
SetMin(S) == CHOOSE d \in S : \A e \in S : d <= e

\* C16 as stated: for every days and every non-null result, days_analyzed is at
\* most days and at most the number of candidate dates with a non-empty table,
\* and start_date / end_date are the oldest / newest of the kept dates.
C16_DaysAnalyzedBounds ==
    PoolGaveResult =>
        /\ pool.res.days_analyzed <= pool.days
        /\ pool.res.days_analyzed <= Cardinality(Surviving)
        /\ pool.res.end_date = SetMax(MostRecent(Surviving, pool.res.days_analyzed))
        /\ pool.res.start_date = SetMin(MostRecent(Surviving, pool.res.days_analyzed))
        /\ pool.res.start_date <= pool.res.end_date

\* C17 as stated: the analysis ends by returning, null exactly when no candidate
\* date gave a non-empty table (a worker whose query raised counting as empty),
\* and never by an exception.
C17_NullOrResultNeverRaises ==
    PoolDone =>
        /\ pool.outcome = "returned"
        /\ pool.res = NullRes <=> Surviving = {}

\* C18: at most max_workers queries are in flight; the candidate dates are the
\* 2*days+5 days ending today, each submitted once and run at most once, and
\* when the analysis ends each has been run exactly once.
C18_BoundedWorkerPool ==
    /\ Cardinality(Running(pool)) <= max_workers
    /\ Len(pool.fut) <= Max(0, 2 * pool.days + 5)
    /\ \A k \in DOMAIN pool.fut :
          /\ pool.fut[k].date = Today - (k - 1)
          /\ pool.fut[k].runs <= 1
          /\ pool.fut[k].st = "queued" <=> pool.fut[k].runs = 0
    /\ PoolDone =>
          /\ Len(pool.fut) = Max(0, 2 * pool.days + 5)
          /\ \A k \in DOMAIN pool.fut : pool.fut[k].runs = 1 /\ pool.fut[k].st = "done"

\* five queries in flight and two more waiting
C18_Witness ==
    /\ Cardinality(Running(pool)) = max_workers
    /\ Cardinality({k \in DOMAIN pool.fut : pool.fut[k].st = "queued"}) = 2

\* C19 as stated, for days >= 1: the parent adds no worker result to
\* raw_results, and starts no sorting, truncation or set computation, until
\* every submitted query has completed.
C19_Original ==
    (pool.days >= 1 /\ (pool.raw # <<>> \/ PoolDone)) =>
        /\ Len(pool.fut) = Len(pool.dates)
        /\ \A k \in DOMAIN pool.fut : pool.fut[k].st = "done"

\* C19 amended: the parent appends to raw_results only tables of workers that
\* have completed, each once, as they complete; it starts no sorting,
\* truncation or set computation until every submitted query has completed
\* and been collected, so that the kept days are the most recent of all the
\* non-empty tables whatever their order of arrival.
C19_Amended ==
    /\ \A i \in DOMAIN pool.raw :
          \E k \in DOMAIN pool.fut :
              /\ pool.fut[k].st = "done" /\ pool.fut[k].got
              /\ pool.fut[k].date = pool.raw[i].date
              /\ pool.fut[k].df = pool.raw[i].df /\ pool.fut[k].df # <<>>
    /\ \A i, j \in DOMAIN pool.raw : i # j => pool.raw[i].date # pool.raw[j].date
    /\ ~PoolDone => pool.res = NoRes
    /\ (pool.kept # <<>> \/ pool.phase \in {"price", "startprice"}) =>
          /\ Len(pool.fut) = Len(pool.dates)
          /\ \A k \in DOMAIN pool.fut : pool.fut[k].st = "done" /\ pool.fut[k].got
    /\ PoolDone =>
          /\ Len(pool.fut) = Len(pool.dates)
          /\ \A k \in DOMAIN pool.fut : pool.fut[k].st = "done" /\ pool.fut[k].got
          /\ Len(pool.raw) = Cardinality(Surviving)
          /\ PoolGaveResult =>
                /\ {pool.kept[i].date : i \in DOMAIN pool.kept}
                      = MostRecent(Surviving, Len(pool.kept))
                /\ \A i \in 1..(Len(pool.kept) - 1) :
                      pool.kept[i].date > pool.kept[i + 1].date

\* results arrived oldest first while workers were still running, and the
\* analysis ended with the days newest first
C19_Witness ==
    /\ PoolGaveResult
    /\ Len(pool.raw) = 3
    /\ pool.raw[1].date < pool.raw[2].date
    /\ pool.raw[2].date < pool.raw[3].date
    /\ pool.res.days_analyzed = 1
    /\ pool.res.end_date = Today

\* C20: for n >= 1, when the index query gave k >= 1 trading days, the resolver
\* returns the n-th most recent of them if k >= n, and the oldest if k < n.
C20_NthTradingDay ==
    (rs.kind = "out" /\ rs.days >= 1 /\ ~rs.failed /\ rs.idx # {}) =>
        IF Cardinality(rs.idx) >= rs.days
        THEN /\ rs.date \in rs.idx
             /\ Cardinality({e \in rs.idx : e > rs.date}) = rs.days - 1
        ELSE rs.date = SetMin(rs.idx)

\* the second most recent of three trading days, the day a month back being
\* outside the range asked of the index
C20_Witness ==
    /\ rs.kind = "out"
    /\ rs.days = 2
    /\ rs.cal = {Today - 30, Today - 3, Today - 2, Today}
    /\ Cardinality(rs.idx) = 3
    /\ rs.date = Today - 2

\* fewer trading days than asked for: the oldest of them
C20_WitnessOldest ==
    /\ rs.kind = "out"
    /\ rs.days = 3
    /\ rs.idx = {Today - 3, Today - 1}
    /\ rs.date = Today - 3

\* C21 as stated: when the index query raises or gives no dates the resolver
\* returns the calendar date n days before now; in every case the date it
\* returns is not later than now.
C21_DegradedMode ==
    rs.kind = "out" =>
        /\ (rs.failed \/ rs.idx = {}) => rs.date = Today - rs.days
        /\ rs.date <= Today

\* C22: get_nearest_market_price(date) queries date, date - 1, ... in
\* descending order, makes at most 7 queries, every query before the last one
\* gave nothing, a non-empty result is the table of the first date whose query
\* gave rows, and the result is empty exactly when all 7 queries were empty or
\* failed.
C22_NearestPrice ==
    np.phase \in {"loop", "done"} =>
        /\ Len(np.queried) <= 7
        /\ \A k \in DOMAIN np.queried :
              /\ np.queried[k].date = np.date - (k - 1)
              /\ np.queried[k].df =
                    IF np.queried[k].date \in np.raised THEN NoPrice
                    ELSE RemotePrice(remote, np.queried[k].date)
              /\ k < Len(np.queried) => DOMAIN np.queried[k].df = {}
        /\ np.phase = "loop" =>
              \A k \in DOMAIN np.queried : DOMAIN np.queried[k].df = {}
        /\ np.phase = "done" =>
              /\ DOMAIN np.res # {} =>
                    /\ np.queried # <<>>
                    /\ np.res = np.queried[Len(np.queried)].df
                    /\ np.res = RemotePrice(remote, np.date - (Len(np.queried) - 1))
              /\ DOMAIN np.res = {} =>
                    /\ Len(np.queried) = 7
                    /\ \A k \in 1..7 : DOMAIN np.queried[k].df = {}
              /\ np.res = get_nearest_market_price(remote, np.date, np.raised)

\* a lookup that found nothing for the date and the day before, and returned
\* the table of the date two days earlier
C22_Witness ==
    /\ np.phase = "done"
    /\ np.raised = {}
    /\ Len(np.queried) = 3
    /\ DOMAIN np.res # {}
    /\ np.res = RemotePrice(remote, np.date - 2)

\* a lookup that returned empty after seven queries, one of which raised on a
\* date the provider has prices for
C22_WitnessEmpty ==
    /\ np.phase = "done"
    /\ DOMAIN np.res = {}
    /\ Len(np.queried) = 7
    /\ \E d \in np.raised : DOMAIN RemotePrice(remote, d) # {}

\* the rows of one local file as the fallback keys them: tickers padded to six
\* digits; a file that is absent, unreadable or has no ticker column gives none
FileRows(fs, code, side, date) ==
    LET f == FileAt(fs, <<code, side, date>>)
    IN  IF f.kind = "csv" /\ f.has_ticker
        THEN [i \in DOMAIN f.rows |-> Row(TK(f.rows[i].ticker), f.rows[i].name, f.rows[i].amt)]
        ELSE <<>>

FirstPos(tbl, t) == SetMin({i \in DOMAIN tbl : tbl[i].ticker = t})

\* C23: a get_investor_data call that reaches the local files returns, for a
\* known investor label, the buy-file rows followed by the sell-file rows of
\* (investor, date) with one row per ticker, the first one (the buy-file row for
\* a ticker in both files), every ticker padded to six digits; for an unknown
\* label it returns the empty table.
C23_FallbackAssembly ==
    \A c \in Callers :
        (Returned(c) /\ last[c].fr) =>
            IF last[c].inv \notin Investors THEN last[c].out = <<>>
            ELSE LET code == investor_code_map[last[c].inv]
                     all  == FileRows(last[c].fseen, code, "buy", last[c].date)
                                \o FileRows(last[c].fseen, code, "sell", last[c].date)
                     out  == last[c].out
                 IN  /\ TickersOf(out) = TickersOf(all)
                     /\ \A i, j \in DOMAIN out : out[i].ticker = out[j].ticker => i = j
                     /\ \A i \in DOMAIN out :
                           /\ Len(out[i].ticker) = 6
                           /\ out[i] = all[FirstPos(all, out[i].ticker)]
                     /\ \A i, j \in DOMAIN out :
                           i < j => FirstPos(all, out[i].ticker) < FirstPos(all, out[j].ticker)

\* a call that returned the fallback table of two files sharing a ticker: the
\* buy-file row of that ticker was kept and the sell-only row follows
C23_Witness ==
    \E c \in Callers :
        /\ Returned(c) /\ last[c].fr
        /\ Len(last[c].out) = 3
        /\ \E t \in TickersOf(FileRows(last[c].fseen, "foreigner", "buy", last[c].date)) :
              /\ t \in TickersOf(FileRows(last[c].fseen, "foreigner", "sell", last[c].date))
              /\ \E i \in DOMAIN last[c].out :
                    last[c].out[i].ticker = t /\ last[c].out[i].amt = 500

\* a call read the buy file before the script had made it and the sell file
\* after the script had written it: it returned the sell file's rows
C23_WitnessWritten ==
    \E c \in Callers :
        /\ Returned(c) /\ last[c].fr
        /\ FileAt(last[c].fseen, <<"foreigner", "buy", last[c].date>>).kind = "absent"
        /\ FileAt(files, <<"foreigner", "buy", last[c].date>>).kind = "csv"
        /\ last[c].out = <<Row(TK(2), "b", -100), Row(TK(1), "a", 500)>>

\* a call with an unknown investor label that reached the fallback and
\* returned the empty table
C23_WitnessUnknown ==
    \E c \in Callers :
        Returned(c) /\ last[c].fr /\ last[c].inv = OtherLabel /\ last[c].out = <<>>

\* the (date, investor) keys that have cached records
CachedKeys == {<<r.date, r.investor>> : r \in cache}

\* the rows of the versions of the provider's table for (date, investor)
ResponsesFor(date, investor_type) ==
    {RowsOf(RemoteNet((date :> id), date, investor_type)) : id \in TableIds} \ {{}}

\* C24: in every reachable state, after failed or refused bulk inserts and
\* under concurrent callers, the cached records of a (date, investor) key are
\* none or exactly the rows of one remote response for that key.
C24_AllOrNothing ==
    \A k \in CachedKeys :
        CachedRows(cache, k[1], k[2]) \in ResponsesFor(k[1], k[2])

\* the provider has revised a day's table, one caller's bulk insert for the key
\* was refused or failed, and the key holds the two rows of the first response
C24_Witness ==
    \E c \in Callers :
        /\ Finished(c) /\ last[c].ins = "failed" /\ last[c].rtab # <<>>
        /\ Cardinality(CachedRows(cache, last[c].date, last[c].inv)) = 2
        /\ RowsOf(last[c].rtab) # CachedRows(cache, last[c].date, last[c].inv)

\* C25: every record that enters the store is written by a get_investor_data
\* call at its bulk insert, under the date and investor that call queried the
\* provider for, and is a row of the table that query returned (while the
\* provider has not changed, a row of what the provider holds for the record's
\* own date and investor); rows read from local files are never written, and a
\* day-stepping request stores an earlier day's rows under the earlier date.
C25_CacheProvenance ==
    [][\A r \in cache' \ cache :
          /\ \E c \in Callers :
                /\ call[c].pc = "insert"
                /\ call[c].rq = "table"
                /\ ~call[c].fr
                /\ r.date = call[c].date
                /\ r.investor = call[c].inv
                /\ Row(r.ticker, r.name, r.net_buy_amount) \in RowsOf(call[c].rtab)
          /\ changes' = 0 =>
                Row(r.ticker, r.name, r.net_buy_amount)
                    \in RowsOf(RemoteNet(remote, r.date, r.investor))]_vars

\* a get_top_net_buy_sell request for today that stepped back one day: the
\* rows are stored under the earlier date and nothing under the requested one
C25_Witness ==
    \E c \in Callers :
        /\ call[c].op = "top" /\ call[c].req = Today /\ call[c].date = Today - 1
        /\ call[c].pc \in {"price", "done"}
        /\ last[c].valid /\ last[c].ins = "ok" /\ last[c].date = Today - 1
        /\ CachedRows(cache, Today - 1, call[c].inv) = RowsOf(last[c].rtab)
        /\ CachedRows(cache, Today, call[c].inv) = {}

\* the tickers with a positive amount in a table
Buyers(df) == {t \in TickersOf(df) : PositiveIn(t, df)}
\* the amount of a ticker in a table
AmtOf(df, t) == (CHOOSE r \in RowsOf(df) : r.ticker = t).amt

\* C27: a trend result over two or more kept days has no ticker in both the
\* consecutive and the new_inflow list; over one kept day the two lists hold
\* the same tickers: net buys of the most recent day, none of them smaller than
\* a net buy left out, and min(top_n, number of net buys) of them for
\* top_n >= 0.
C27_ListsDisjointOrEqual ==
    rk.kind = "trend" =>
        /\ Len(rk.kept) >= 2 =>
              ListTickers(rk.consecutive) \cap ListTickers(rk.new_inflow) = {}
        /\ Len(rk.kept) = 1 =>
              /\ ListTickers(rk.consecutive) = ListTickers(rk.new_inflow)
              /\ ListTickers(rk.consecutive) \subseteq Buyers(rk.df)
              /\ \A t \in ListTickers(rk.consecutive),
                    u \in Buyers(rk.df) \ ListTickers(rk.consecutive) :
                    AmtOf(rk.df, t) >= AmtOf(rk.df, u)
              /\ rk.top_n >= 0 =>
                    Len(rk.consecutive) = Min(rk.top_n, Cardinality(Buyers(rk.df)))

\* one kept day with two net buys of the same amount and top_n = 1: both lists
\* hold the same single ticker
C27_Witness ==
    /\ rk.kind = "trend"
    /\ Len(rk.kept) = 1
    /\ rk.top_n = 1
    /\ \E t, u \in Buyers(rk.df) : t # u /\ AmtOf(rk.df, t) = AmtOf(rk.df, u)
    /\ Len(rk.consecutive) = 1
    /\ ListTickers(rk.new_inflow) = ListTickers(rk.consecutive)

\* three kept days with both lists non-empty and no ticker in common
C27_WitnessDisjoint ==
    /\ rk.kind = "trend"
    /\ Len(rk.kept) = 3
    /\ rk.consecutive # <<>>
    /\ rk.new_inflow # <<>>
    /\ ListTickers(rk.consecutive) \cap ListTickers(rk.new_inflow) = {}

\* the non-empty answers of the per-date queries, in the order of the candidate
\* dates (newest first), whatever the order in which they arrived
AnswersByDate ==
    LET all == [k \in DOMAIN pool.fut |->
                    [date |-> pool.fut[k].date, df |-> pool.fut[k].df]]
        NonEmpty(x) == x.df # <<>>
    IN  SelectSeq(all, NonEmpty)

\* no two net buys of a table have the same amount
NoTiedBuyers(df) ==
    \A i, j \in DOMAIN df : (i # j /\ df[i].amt > 0 /\ df[j].amt > 0) => df[i].amt # df[j].amt

\* C26: what analyze_special_trends ends with is fixed by the answers of the
\* per-date queries and of the price lookups, not by the order in which the
\* workers completed: the kept days are the first `days` of the answers taken
\* newest first, and the result (consecutive, new_inflow, days_analyzed,
\* start_date, end_date) is the one computed from those kept days.
C26_OrderIndependent ==
    PoolDone =>
        LET kept == kept_results(AnswersByDate, pool.days)
        IN  /\ AnswersByDate = <<>> => (pool.outcome = "returned" /\ pool.res = NullRes)
            /\ (AnswersByDate # <<>> /\ kept = <<>>) => pool.outcome = "raised"
            /\ kept # <<>> =>
                  /\ pool.outcome = "returned"
                  /\ pool.kept = kept
                  /\ pool.res \in TrendResults(kept, pool.price, pool.start_price,
                                                pool.top_n)
                  /\ NoTiedBuyers(kept[1].df) =>
                        TrendResults(kept, pool.price, pool.start_price, pool.top_n)
                            = {pool.res}

\* one day was asked for and three answered, the newest arriving last: the
\* result is that of the newest day alone, with its net buy listed
C26_Witness ==
    /\ PoolGaveResult
    /\ pool.days = 1
    /\ Len(pool.raw) = 3
    /\ pool.raw[3].date = Today
    /\ pool.raw[1].date = Today - 2
    /\ pool.kept = <<[date |-> Today, df |-> pool.raw[3].df]>>
    /\ pool.res.days_analyzed = 1
    /\ pool.res.start_date = Today
    /\ pool.res.consecutive # <<>>
====
